---- MODULE Spec2Model ----
(***************************************************************************)
(* A byte-level model of the wireguard-uapi netlink codec and sessions.    *)
(*                                                                         *)
(* Buffers are sequences of bytes (0..255); the offset o of the code is    *)
(* element o+1 of the sequence.  Option<T> is a sequence of length 0       *)
(* (None) or 1 (Some).  The host is little-endian, as the crate assumes.   *)
(***************************************************************************)
EXTENDS Integers, Sequences, FiniteSets, TLC

VARIABLES
    pc,         \* position of the driver of the current specification
    inPeer,     \* the Peer handed to set_peer
    sent,       \* bytes of the last message given to sendto
    sock,       \* receive queue of the session socket: a sequence of datagrams
    inner,      \* MsgBuffer.inner (the bytes written so far; the rest is zero)
    size,       \* MsgBuffer.size
    pos,        \* PartIterator.pos
    gen,        \* number of recvfrom calls that filled MsgBuffer.inner
    items,      \* what PartIterator::next has returned, oldest first
    held,       \* the MsgPart / Attribute views the caller holds
    refs,       \* number of outstanding Ref<[u8]> borrows of MsgBuffer.inner
    outPeer,    \* what the receive loop of get_peers (parse_peers) returned
    nl,         \* the NetlinkGeneric session (seq, family, mcast_groups)
    log,        \* history of the session's requests and operations
    dev         \* WireguardDev::new: its input and its result

vars == <<pc, inPeer, sent, sock, inner, size, pos, gen, items, held, refs, outPeer, nl, log, dev>>

-----------------------------------------------------------------------------
(* Bounds of the model *)

\* longest allowed_ips list of an input peer
MaxIps == 2
\* length of the non-empty public keys
KeyLen == 4

-----------------------------------------------------------------------------
(* Constants of the kernel uapi headers (bindings.rs is generated from them) *)

NLMSG_ERROR == 2
NLMSG_DONE == 3
NLM_F_REQUEST == 1
NLM_F_MULTI == 2
NLM_F_ACK == 4
NLM_F_DUMP_INTR == 16
NLM_F_DUMP == 768
NLA_F_NESTED == 32768
NLA_F_NET_BYTEORDER == 16384
GENL_ID_CTRL == 16
CTRL_CMD_NEWFAMILY == 1
CTRL_CMD_GETFAMILY == 3
CTRL_ATTR_FAMILY_ID == 1
CTRL_ATTR_FAMILY_NAME == 2
CTRL_ATTR_MCAST_GROUPS == 7
CTRL_ATTR_MCAST_GRP_NAME == 1
CTRL_ATTR_MCAST_GRP_ID == 2
RTM_NEWLINK == 16
RTM_DELLINK == 17
RTM_GETLINK == 18
IFLA_IFNAME == 3
IFLA_LINKINFO == 18
IFLA_INFO_KIND == 1
AF_UNSPEC == 0
AF_INET == 2
AF_INET6 == 10
WG_CMD_GET_DEVICE == 0
WG_CMD_SET_DEVICE == 1
WGDEVICE_A_IFINDEX == 1
WGDEVICE_A_IFNAME == 2
WGDEVICE_A_PEERS == 8
WGDEVICE_A_MONITOR == 9
\* wgdevice_monitor_flag::ENDPOINT | wgdevice_monitor_flag::PEERS
MonitorFlags == 3
WGPEER_A_PUBLIC_KEY == 1
WGPEER_A_FLAGS == 3
WGPEER_A_ENDPOINT == 4
WGPEER_A_PERSISTENT_KEEPALIVE_INTERVAL == 5
WGPEER_A_ALLOWEDIPS == 9
WGPEER_F_REMOVE_ME == 1
WGALLOWEDIP_A_FAMILY == 1
WGALLOWEDIP_A_IPADDR == 2
WGALLOWEDIP_A_CIDR_MASK == 3

\* sizes of the fixed-layout structs (mem::size_of)
SIZEOF_nlmsghdr == 16
SIZEOF_genlmsghdr == 4
SIZEOF_nlattr == 4
SIZEOF_ifinfomsg == 16
SIZEOF_sockaddr_in == 16
SIZEOF_sockaddr_in6 == 28
MAX_NL_MSG_SIZE == 2048

-----------------------------------------------------------------------------
(* Bytes and integers *)

\* `let x = e;` followed by the code F that uses x: e is evaluated first
\* (the test e = e makes TLC compute it once, before F), then F is applied
With(e, F(_)) == IF e = e THEN F(e) ELSE F(e)

None == <<>>
Some(x) == <<x>>

Zeros(n) == [i \in 1..n |-> 0]

\* the byte at offset o of a buffer whose unwritten tail is zero
At(b, o) == IF o < Len(b) THEN b[o + 1] ELSE 0

\* b[s..e]
Slice(b, s, e) == [i \in 1..(e - s) |-> At(b, s + i - 1)]

Reverse(s) == [i \in 1..Len(s) |-> s[Len(s) + 1 - i]]

RECURSIVE BitAnd(_, _)
BitAnd(a, b) ==
    IF a = 0 \/ b = 0 THEN 0
    ELSE 2 * BitAnd(a \div 2, b \div 2) + (IF a % 2 = 1 /\ b % 2 = 1 THEN 1 ELSE 0)

RECURSIVE BitOr(_, _)
BitOr(a, b) ==
    IF a = 0 THEN b
    ELSE IF b = 0 THEN a
    ELSE 2 * BitOr(a \div 2, b \div 2) + (IF a % 2 = 1 \/ b % 2 = 1 THEN 1 ELSE 0)

\* to_le_bytes / from_le_bytes
u8_to_le_bytes(x) == <<x % 256>>
u16_to_le_bytes(x) == <<x % 256, (x \div 256) % 256>>
u32_to_le_bytes(x) == <<x % 256, (x \div 256) % 256, (x \div 65536) % 256, (x \div 16777216) % 256>>
u16_from_le_bytes(b) == b[1] + 256 * b[2]
u32_from_le_bytes(b) == b[1] + 256 * (b[2] + 256 * (b[3] + 256 * b[4]))

\* u16::to_be / u16::from_be on a little-endian host: a byte swap
u16_swap(x) == (x % 256) * 256 + (x \div 256)

\* i32::to_le_bytes, for the values -256 < x the model uses
i32_to_le_bytes(x) ==
    IF x >= 0 THEN u32_to_le_bytes(x)
    ELSE <<(256 + x) % 256, 255, 255, 255>>

\* i32::from_le_bytes (two's complement)
i32_from_le_bytes(b) ==
    IF b[4] >= 128 THEN (b[1] + 256 * (b[2] + 256 * b[3])) + (b[4] - 256) * 16777216
    ELSE u32_from_le_bytes(b)

\* nl_align_length: ((size) + 3) & !3
nl_align_length(n) == ((n + 3) \div 4) * 4

\* nl_size_of_aligned::<T>()
nl_size_of_aligned(sz) == nl_align_length(sz)

-----------------------------------------------------------------------------
(* Fixed-layout structs, as the bytes of their repr(C) layout *)

nlattr_bytes(nla_len, nla_type) ==
    u16_to_le_bytes(nla_len) \o u16_to_le_bytes(nla_type)

nlmsghdr_bytes(h) ==
    u32_to_le_bytes(h.nlmsg_len) \o u16_to_le_bytes(h.nlmsg_type)
        \o u16_to_le_bytes(h.nlmsg_flags) \o u32_to_le_bytes(h.nlmsg_seq)
        \o u32_to_le_bytes(h.nlmsg_pid)

genlmsghdr_bytes(cmd, version) == <<cmd, version, 0, 0>>

\* ifi_change is 0xFFFFFFFF in requests and 0 in the kernel's replies
ifinfomsg_bytes(family, type, index, change) ==
    <<family, 0>> \o u16_to_le_bytes(type) \o u32_to_le_bytes(index)
        \o Zeros(4) \o <<change, change, change, change>>

nlmsghdr_new(family, seq) ==
    [nlmsg_len |-> 0, nlmsg_type |-> family,
     nlmsg_flags |-> BitOr(NLM_F_REQUEST, NLM_F_ACK),
     nlmsg_seq |-> seq, nlmsg_pid |-> 0]

-----------------------------------------------------------------------------
(* send.rs: MsgBuilder and NestBuilder.                                    *)
(* A builder is [inner, pos, header, nests, ok]: inner holds the bytes     *)
(* below pos (the rest of the 2048-byte array is zero), nests is the stack *)
(* of the open NestBuilders (start_pos, start_attr.nla_type), outermost    *)
(* first, and ok is FALSE once a write past MAX_NL_MSG_SIZE has panicked.  *)

\* inner[at..at+len].copy_from_slice(bytes), the cursor moving to newPos
WriteAt(b, at, bytes, newPos) ==
    With(IF newPos > Len(b.inner)
                 THEN b.inner \o Zeros(newPos - Len(b.inner)) ELSE b.inner, LAMBDA grown :
       [b EXCEPT
          !.inner = [i \in 1..Len(grown) |->
                        IF i > at /\ i <= at + Len(bytes) THEN bytes[i - at] ELSE grown[i]],
          !.pos = newPos,
          !.ok = b.ok /\ at + Len(bytes) <= MAX_NL_MSG_SIZE])

\* write_obj: copy at the cursor and advance by the aligned size
write_obj(b, bytes) ==
    WriteAt(b, b.pos, bytes, b.pos + nl_size_of_aligned(Len(bytes)))

\* write_obj_at: copy at a given place; the cursor stays
write_obj_at(b, bytes, at) == WriteAt(b, at, bytes, b.pos)

MsgBuilder_new(family, seq) ==
    [inner |-> Zeros(nl_size_of_aligned(SIZEOF_nlmsghdr)),
     pos |-> nl_size_of_aligned(SIZEOF_nlmsghdr),
     header |-> nlmsghdr_new(family, seq),
     nests |-> <<>>,
     ok |-> TRUE]

generic(b, cmd) == write_obj(b, genlmsghdr_bytes(cmd, 1))

ifinfomsg(b, family) == write_obj(b, ifinfomsg_bytes(family, 0, 0, 255))

dump(b) == [b EXCEPT !.header.nlmsg_flags = BitOr(@, NLM_F_DUMP)]

\* attr_bytes with the cursor advanced by the unpadded payload length
attr_bytes_unaligned(b, attr_type, payload) ==
    With(nlattr_bytes((nl_size_of_aligned(SIZEOF_nlattr) + Len(payload)) % 65536, attr_type), LAMBDA hdr :
        With(write_obj(b, hdr), LAMBDA b1 :
       WriteAt(b1, b1.pos, payload, b1.pos + Len(payload))))

\* MsgBuilder::attr_bytes: the header with the unpadded length, the payload,
\* the cursor advanced by the aligned payload length
attr_bytes(b, attr_type, payload) ==
    With(nlattr_bytes((nl_size_of_aligned(SIZEOF_nlattr) + Len(payload)) % 65536, attr_type), LAMBDA hdr :
        With(write_obj(b, hdr), LAMBDA b1 :
       WriteAt(b1, b1.pos, payload, b1.pos + nl_align_length(Len(payload)))))

\* attr::<T>: the header, then T::serialize_at (the bytes of the value, the
\* cursor advanced by the aligned size of T)
attr(b, attr_type, valueBytes) ==
    With(Len(valueBytes), LAMBDA tlen :
        With(nlattr_bytes((nl_size_of_aligned(SIZEOF_nlattr) + tlen) % 65536, attr_type), LAMBDA hdr :
        With(write_obj(b, hdr), LAMBDA b1 :
       WriteAt(b1, b1.pos, valueBytes, b1.pos + nl_align_length(tlen)))))

attr_list_start(b, attr_type) ==
    With(b.pos, LAMBDA start_pos :
        With(WriteAt(b, b.pos, <<>>, b.pos + nl_align_length(nl_size_of_aligned(SIZEOF_nlattr))), LAMBDA b1 :
       [b1 EXCEPT !.nests = Append(@, [start_pos |-> start_pos,
                                      nla_type |-> BitOr(attr_type, NLA_F_NESTED)])]))

\* attr_list_end with the length of the children alone
attr_list_end_payload_len(b) ==
    With(b.nests[Len(b.nests)], LAMBDA n :
        With((b.pos - n.start_pos - nl_size_of_aligned(SIZEOF_nlattr)) % 65536, LAMBDA nla_len :
        With(write_obj_at(b, nlattr_bytes(nla_len, n.nla_type), n.start_pos), LAMBDA b1 :
       [b1 EXCEPT !.nests = SubSeq(@, 1, Len(@) - 1)])))

\* NestBuilder::attr_list_end: the header of the nest, at its start
attr_list_end(b) ==
    With(b.nests[Len(b.nests)], LAMBDA n :
        With((b.pos - n.start_pos) % 65536, LAMBDA nla_len :
        With(write_obj_at(b, nlattr_bytes(nla_len, n.nla_type), n.start_pos), LAMBDA b1 :
       [b1 EXCEPT !.nests = SubSeq(@, 1, Len(@) - 1)])))

\* sendto: the bytes handed to the socket (inner[..pos] with the header at 0)
sendto(b) ==
    With([b.header EXCEPT !.nlmsg_len = b.pos], LAMBDA h :
       write_obj_at(b, nlmsghdr_bytes(h), 0).inner)

-----------------------------------------------------------------------------
(* recv.rs: MsgBuffer, PartIterator, AttributeIterator.                    *)
(* The receive side is a record st = [sock, inner, size, pos, gen,         *)
(* msg_type]: the socket's queue, MsgBuffer.inner and .size, the           *)
(* PartIterator's cursor, the count of receives, MsgBuffer.msg_type        *)
(* ([kind |-> "Generic", family |-> id] or [kind |-> "Route"]) and the     *)
(* number of live Ref borrows of the RefCell around inner.                 *)

Generic(family_id) == [kind |-> "Generic", family |-> family_id]
Route == [kind |-> "Route", family |-> 0]

\* MsgBuffer::deserialize::<T>: Err(Truncated) is <<>>, Ok((bytes of T, new_pos))
deserialize(b, start, limit, sizeofT) ==
    IF start + nl_size_of_aligned(sizeofT) > limit
    THEN None
    ELSE Some([bytes |-> Slice(b, start, start + sizeofT),
               new_pos |-> start + nl_size_of_aligned(sizeofT)])

\* The assertions of deserialize on align_to::<T>() for a T aligned on 4
\* bytes (nlmsghdr, ifinfomsg): the slice at start must be aligned, inner
\* itself being aligned
deserialize_aligned(start) == nl_align_length(start) = start

nlmsghdr_of(bytes) ==
    [nlmsg_len |-> u32_from_le_bytes(SubSeq(bytes, 1, 4)),
     nlmsg_type |-> u16_from_le_bytes(SubSeq(bytes, 5, 6)),
     nlmsg_flags |-> u16_from_le_bytes(SubSeq(bytes, 7, 8)),
     nlmsg_seq |-> u32_from_le_bytes(SubSeq(bytes, 9, 12)),
     nlmsg_pid |-> u32_from_le_bytes(SubSeq(bytes, 13, 16))]

nlattr_of(bytes) ==
    [nla_len |-> u16_from_le_bytes(SubSeq(bytes, 1, 2)),
     nla_type |-> u16_from_le_bytes(SubSeq(bytes, 3, 4))]

genlmsghdr_of(bytes) == [cmd |-> bytes[1], version |-> bytes[2]]

ifinfomsg_of(bytes) ==
    [ifi_family |-> bytes[1],
     ifi_type |-> u16_from_le_bytes(SubSeq(bytes, 3, 4)),
     ifi_index |-> i32_from_le_bytes(SubSeq(bytes, 5, 8))]

\* nlattr::is_nested, payload_type, payload_length
is_nested(a) == BitAnd(NLA_F_NESTED, a.nla_type) = NLA_F_NESTED
payload_type(a) == a.nla_type % NLA_F_NET_BYTEORDER
payload_length(a) == a.nla_len - nl_size_of_aligned(SIZEOF_nlattr)

\* MsgBuffer::recv: one recvfrom into inner (the bytes past the datagram stay)
recv(st) ==
    With(Head(st.sock), LAMBDA d :
       [st EXCEPT
          !.sock = Tail(st.sock),
          !.inner = d \o SubSeq(st.inner, Len(d) + 1, Len(st.inner)),
          !.size = Len(d),
          !.gen = st.gen + 1])

\* Attribute::new
Attribute_new(a, start) ==
    [payload_start |-> start,
     payload_end |-> start + payload_length(a),
     nested |-> is_nested(a),
     type |-> payload_type(a)]

\* Attribute::get_bytes: the view resolves against the buffer at access time
get_bytes(b, a) == Slice(b, a.payload_start, a.payload_end)

\* Attribute::make_nested
make_nested(a) == [a EXCEPT !.nested = TRUE]

\* AttributeIterator::next over (pos, end).  Returns [kind, attr, pos]:
\* "None" at the end, "Some" with the view and the new cursor, "Panic" for a
\* record that crosses end.  For a record whose nla_len is below the header
\* size the subtraction in payload_length overflows: a build with overflow
\* checks (checks) panics there; a build without them wraps modulo the width
\* of usize and goes on.  A wrapped length is held here as its two's
\* complement value (nla_len - 4, in -4..-1): the masking of nl_align_length
\* is the floor to a multiple of 4 on it, and the sums new_pos + length are
\* the wrapped sums, all of them in 0..end.
AttributeIterator_step(b, p, end, checks) ==
    With(deserialize(b, p, end, SIZEOF_nlattr), LAMBDA d :
       IF d = None THEN [kind |-> "None", attr |-> None, pos |-> p]
       ELSE With(nlattr_of(d[1].bytes), LAMBDA a :
                With(d[1].new_pos, LAMBDA new_pos :
               IF a.nla_len < nl_size_of_aligned(SIZEOF_nlattr) /\ checks
               THEN [kind |-> "Panic", attr |-> None, pos |-> p]
               ELSE IF new_pos + nl_align_length(payload_length(a)) > end
               THEN [kind |-> "Panic", attr |-> None, pos |-> p]
               ELSE [kind |-> "Some",
                     attr |-> Some(Attribute_new(a, new_pos)),
                     pos |-> new_pos + nl_align_length(payload_length(a))])))

\* The same on attributes written by the kernel side or by MsgBuilder, whose
\* nla_len is never below the header size: the two builds agree
AttributeIterator_next(b, p, end) == AttributeIterator_step(b, p, end, TRUE)

\* The views a loop `for a in iterator` visits, and whether the iteration
\* ended in a panic.
RECURSIVE AttrViews(_, _, _)
AttrViews(b, p, end) ==
    With(AttributeIterator_next(b, p, end), LAMBDA r :
       CASE r.kind = "None" -> [views |-> <<>>, panic |-> FALSE]
         [] r.kind = "Panic" -> [views |-> <<>>, panic |-> TRUE]
         [] OTHER -> With(AttrViews(b, r.pos, end), LAMBDA rest :
                        [views |-> <<r.attr[1]>> \o rest.views, panic |-> rest.panic]))

\* Attribute::attributes: empty for a Raw view
Attribute_attributes(b, a) ==
    IF a.nested THEN AttrViews(b, a.payload_start, a.payload_end)
    ELSE [views |-> <<>>, panic |-> FALSE]

\* FromAttr for u16 / u8 / u32: buffer[0..n] panics on a shorter payload
from_attr(bytes, n) ==
    IF Len(bytes) < n THEN [kind |-> "Panic", val |-> 0]
    ELSE [kind |-> "Some",
          val |-> CASE n = 1 -> bytes[1]
                    [] n = 2 -> u16_from_le_bytes(bytes)
                    [] OTHER -> u32_from_le_bytes(bytes)]

\* FromAttr for CString: CStr::from_bytes_with_nul (one NUL, at the end)
cstring_from_attr(bytes) ==
    IF Len(bytes) > 0 /\ bytes[Len(bytes)] = 0
          /\ \A i \in 1..(Len(bytes) - 1) : bytes[i] # 0
    THEN Some(SubSeq(bytes, 1, Len(bytes) - 1))
    ELSE None

-----------------------------------------------------------------------------
(* wireguard.rs: the Peer entity and its mapping to attributes.            *)
(* A Peer is [peer_key, endpoint, allowed_ips, keepalive]; an IpAddr is    *)
(* [v |-> 4 or 6, octets |-> bytes].                                       *)

V4(octets) == [v |-> 4, octets |-> octets]
V6(octets) == [v |-> 6, octets |-> octets]

\* A u32 is kept as its four little-endian bytes (TLC's integers are 32-bit
\* signed).  u32::from(Ipv4Addr) has the octets as its big-endian bytes;
\* to_be / from_be swap the bytes; Ipv4Addr::from(u32) is the inverse.
\* sockaddr_in / sockaddr_in6 as built by attr_endpoint: the port is
\* port.to_be() and the address u32::from(ipv4).to_be(), stored natively.
u32_from_ipv4(octets) == Reverse(octets)
u32_swap(leBytes) == Reverse(leBytes)
ipv4_from_u32(leBytes) == Reverse(leBytes)

\* a sockaddr_in whose port is left in host order
sockaddr_in_host_port(ip, port) ==
    u16_to_le_bytes(AF_INET) \o u16_to_le_bytes(port)
        \o u32_swap(u32_from_ipv4(ip.octets)) \o Zeros(8)

sockaddr_in_bytes(ip, port) ==
    u16_to_le_bytes(AF_INET) \o u16_to_le_bytes(u16_swap(port))
        \o u32_swap(u32_from_ipv4(ip.octets)) \o Zeros(8)

\* sockaddr_in6 with the port left in host order
sockaddr_in6_host_port(ip, port) ==
    u16_to_le_bytes(AF_INET6) \o u16_to_le_bytes(port)
        \o Zeros(4) \o ip.octets \o Zeros(4)

sockaddr_in6_bytes(ip, port) ==
    u16_to_le_bytes(AF_INET6) \o u16_to_le_bytes(u16_swap(port))
        \o Zeros(4) \o ip.octets \o Zeros(4)

attr_endpoint(b, attr_type, endpoint) ==
    IF endpoint.ip.v = 4
    THEN attr(b, attr_type, sockaddr_in_bytes(endpoint.ip, endpoint.port))
    ELSE attr(b, attr_type, sockaddr_in6_bytes(endpoint.ip, endpoint.port))

add_ip(b, ip, mask) ==
    With(IF ip.v = 4
              THEN attr_bytes(attr(b, WGALLOWEDIP_A_FAMILY, u16_to_le_bytes(AF_INET)),
                              WGALLOWEDIP_A_IPADDR, ip.octets)
              ELSE attr_bytes(attr(b, WGALLOWEDIP_A_FAMILY, u16_to_le_bytes(AF_INET6)),
                              WGALLOWEDIP_A_IPADDR, ip.octets), LAMBDA b1 :
       attr(b1, WGALLOWEDIP_A_CIDR_MASK, u8_to_le_bytes(mask)))

RECURSIVE set_allowed_ips(_, _)
set_allowed_ips(b, ips) ==
    IF ips = <<>> THEN b
    ELSE set_allowed_ips(
            attr_list_end(add_ip(attr_list_start(b, 0), Head(ips).ip, Head(ips).mask)),
            Tail(ips))

\* set_peer with the endpoint and the keepalive ahead of the allowed ips
set_peer_endpoint_first(b, peer) ==
    With(attr_bytes(attr_list_start(b, 0), WGPEER_A_PUBLIC_KEY, peer.peer_key), LAMBDA l0 :
        With( IF peer.endpoint # None
              THEN attr_endpoint(l0, WGPEER_A_ENDPOINT, peer.endpoint[1]) ELSE l0, LAMBDA l1 :
        With( IF peer.keepalive # None
              THEN attr(l1, WGPEER_A_PERSISTENT_KEEPALIVE_INTERVAL,
                        u16_to_le_bytes(peer.keepalive[1]))
              ELSE l1, LAMBDA l2 :
       attr_list_end(
         attr_list_end(set_allowed_ips(attr_list_start(l2, WGPEER_A_ALLOWEDIPS),
                                       peer.allowed_ips))))))

\* NestBuilder::set_peer
set_peer(b, peer) ==
    With(attr_list_end(
                set_allowed_ips(
                  attr_list_start(
                    attr_bytes(attr_list_start(b, 0), WGPEER_A_PUBLIC_KEY, peer.peer_key),
                    WGPEER_A_ALLOWEDIPS),
                  peer.allowed_ips)), LAMBDA l1 :
        With( IF peer.endpoint # None
              THEN attr_endpoint(l1, WGPEER_A_ENDPOINT, peer.endpoint[1]) ELSE l1, LAMBDA l2 :
        With( IF peer.keepalive # None
              THEN attr(l2, WGPEER_A_PERSISTENT_KEEPALIVE_INTERVAL,
                        u16_to_le_bytes(peer.keepalive[1]))
              ELSE l2, LAMBDA l3 :
       attr_list_end(l3))))

remove_peer(b, peer_key) ==
    attr_list_end(
      attr_bytes(
        attr(attr_list_start(b, 0), WGPEER_A_FLAGS, u32_to_le_bytes(WGPEER_F_REMOVE_ME)),
        WGPEER_A_PUBLIC_KEY, peer_key))

parse_endpoint(bytes) ==
    IF Len(bytes) = SIZEOF_sockaddr_in6
    THEN IF u16_from_le_bytes(SubSeq(bytes, 1, 2)) # AF_INET6
         THEN [kind |-> "Panic", val |-> None]
         ELSE [kind |-> "Ok",
               val |-> Some([ip |-> V6(SubSeq(bytes, 9, 24)),
                             port |-> u16_swap(u16_from_le_bytes(SubSeq(bytes, 3, 4)))])]
    ELSE IF Len(bytes) = SIZEOF_sockaddr_in
    THEN IF u16_from_le_bytes(SubSeq(bytes, 1, 2)) # AF_INET
         THEN [kind |-> "Panic", val |-> None]
         ELSE [kind |-> "Ok",
               val |-> Some([ip |-> V4(ipv4_from_u32(u32_swap(SubSeq(bytes, 5, 8)))),
                             port |-> u16_swap(u16_from_le_bytes(SubSeq(bytes, 3, 4)))])]
    ELSE [kind |-> "Ok", val |-> None]

\* The loop of parse_allowed_ip over the sub-attributes; acc is
\* [bytes, family, mask, kind] with kind "Ok", "None" (early return) or "Panic".
RECURSIVE allowed_ip_loop(_, _, _)
allowed_ip_loop(b, views, acc) ==
    IF views = <<>> \/ acc.kind # "Ok" THEN acc
    ELSE With(Head(views), LAMBDA a :
             With(~a.nested, LAMBDA raw :
            IF raw /\ a.type = WGALLOWEDIP_A_IPADDR
            THEN allowed_ip_loop(b, Tail(views), [acc EXCEPT !.bytes = Some(get_bytes(b, a))])
            ELSE IF raw /\ a.type = WGALLOWEDIP_A_FAMILY
            THEN With(from_attr(get_bytes(b, a), 2), LAMBDA f :
                    IF f.kind = "Panic" THEN [acc EXCEPT !.kind = "Panic"]
                    ELSE allowed_ip_loop(b, Tail(views), [acc EXCEPT !.family = Some(f.val)]))
            ELSE IF raw /\ a.type = WGALLOWEDIP_A_CIDR_MASK
            THEN With(from_attr(get_bytes(b, a), 1), LAMBDA m :
                    IF m.kind = "Panic" THEN [acc EXCEPT !.kind = "Panic"]
                    ELSE allowed_ip_loop(b, Tail(views), [acc EXCEPT !.mask = Some(m.val)]))
            ELSE [acc EXCEPT !.kind = "None"]))

\* parse_allowed_ip: [kind |-> "Ok", val |-> Option<(IpAddr, u8)>] or a panic
parse_allowed_ip(b, ip_attr) ==
    With(Attribute_attributes(b, ip_attr), LAMBDA sub :
        With(allowed_ip_loop(b, sub.views,
                               [bytes |-> None, family |-> None, mask |-> None, kind |-> "Ok"]), LAMBDA acc :
        With([kind |-> "Ok", val |-> None], LAMBDA no :
       IF acc.kind = "Panic" THEN [kind |-> "Panic", val |-> None]
       ELSE IF sub.panic /\ acc.kind = "Ok" THEN [kind |-> "Panic", val |-> None]
       ELSE IF acc.kind = "None" THEN no
       ELSE IF acc.family = None THEN no
       ELSE IF acc.family[1] = AF_INET
       THEN IF acc.bytes = None \/ Len(acc.bytes[1]) # 4 \/ acc.mask = None THEN no
            ELSE [kind |-> "Ok", val |-> Some([ip |-> V4(acc.bytes[1]), mask |-> acc.mask[1]])]
       ELSE IF acc.family[1] = AF_INET6
       THEN IF acc.bytes = None \/ Len(acc.bytes[1]) # 16 \/ acc.mask = None THEN no
            ELSE [kind |-> "Ok", val |-> Some([ip |-> V6(acc.bytes[1]), mask |-> acc.mask[1]])]
       ELSE no)))

\* a.attributes().filter_map(parse_allowed_ip).collect()
RECURSIVE collect_allowed_ips(_, _)
collect_allowed_ips(b, views) ==
    IF views = <<>> THEN [kind |-> "Ok", val |-> <<>>]
    ELSE With(parse_allowed_ip(b, Head(views)), LAMBDA r :
            IF r.kind = "Panic" THEN [kind |-> "Panic", val |-> <<>>]
            ELSE With(collect_allowed_ips(b, Tail(views)), LAMBDA rest :
                    [kind |-> rest.kind, val |-> r.val \o rest.val]))

\* The loop of Peer::new; acc is the four locals plus kind ("Ok" or "Panic")
RECURSIVE peer_loop(_, _, _)
peer_loop(b, views, acc) ==
    IF views = <<>> \/ acc.kind # "Ok" THEN acc
    ELSE With(Head(views), LAMBDA a :
             With(~a.nested, LAMBDA raw :
            IF raw /\ a.type = WGPEER_A_PUBLIC_KEY
            THEN peer_loop(b, Tail(views),
                           [acc EXCEPT !.peer_key = @ \o get_bytes(b, a)])
            ELSE IF raw /\ a.type = WGPEER_A_ENDPOINT
            THEN With(parse_endpoint(get_bytes(b, a)), LAMBDA e :
                    IF e.kind = "Panic" THEN [acc EXCEPT !.kind = "Panic"]
                    ELSE peer_loop(b, Tail(views), [acc EXCEPT !.endpoint = e.val]))
            ELSE IF raw /\ a.type = WGPEER_A_PERSISTENT_KEEPALIVE_INTERVAL
            THEN With(from_attr(get_bytes(b, a), 2), LAMBDA k :
                    IF k.kind = "Panic" THEN [acc EXCEPT !.kind = "Panic"]
                    ELSE peer_loop(b, Tail(views),
                                   [acc EXCEPT !.keepalive =
                                        IF k.val # 0 THEN Some(k.val) ELSE None]))
            ELSE IF a.nested /\ a.type = WGPEER_A_ALLOWEDIPS
            THEN With(Attribute_attributes(b, a), LAMBDA sub :
                     With(collect_allowed_ips(b, sub.views), LAMBDA ips :
                    IF ips.kind = "Panic" \/ sub.panic THEN [acc EXCEPT !.kind = "Panic"]
                    ELSE peer_loop(b, Tail(views), [acc EXCEPT !.allowed_ips = ips.val])))
            ELSE peer_loop(b, Tail(views), acc)))

\* Peer::new over the attribute iterator (pos, end) of a peer nest:
\* [kind |-> "Ok", val |-> Option<Peer>], or a panic
Peer_new(b, p, end) ==
    With(AttrViews(b, p, end), LAMBDA it :
        With(peer_loop(b, it.views,
                         [peer_key |-> <<>>, endpoint |-> None, allowed_ips |-> <<>>,
                          keepalive |-> None, kind |-> "Ok"]), LAMBDA acc :
       IF acc.kind = "Panic" \/ it.panic THEN [kind |-> "Panic", val |-> None]
       ELSE [kind |-> "Ok",
             val |-> Some([peer_key |-> acc.peer_key, endpoint |-> acc.endpoint,
                           allowed_ips |-> acc.allowed_ips, keepalive |-> acc.keepalive])]))

\* WireguardDev::parse_peers
RECURSIVE parse_peers(_, _)
parse_peers(b, views) ==
    IF views = <<>> THEN [kind |-> "Ok", val |-> <<>>]
    ELSE With(Head(views), LAMBDA a :
             With(IF a.nested THEN Peer_new(b, a.payload_start, a.payload_end)
                  ELSE Peer_new(b, 0, 0), LAMBDA r :
            IF r.kind = "Panic" THEN [kind |-> "Panic", val |-> <<>>]
            ELSE With(parse_peers(b, Tail(views)), LAMBDA rest :
                    [kind |-> rest.kind, val |-> r.val \o rest.val])))

-----------------------------------------------------------------------------
(* recv.rs: PartIterator::next.                                            *)
(* What a call returns is a record `item`:                                 *)
(*   kind "Part"    Some(Ok(MsgPart)): header, sub-header, attribute span, *)
(*                  and (model only) the offset and the receive count the  *)
(*                  view was made at and the bytes of the message then;    *)
(*   kind "Err"     Some(Err(e)): err is "Truncated", "OsError" (with      *)
(*                  errno) or "IoError";                                   *)
(*   kind "None"    None;                                                  *)
(*   kind "Panic"   the call panics (err says where);                      *)
(*   kind "Blocked" recvfrom blocks for ever on an empty queue.            *)

NoHeader == [nlmsg_len |-> 0, nlmsg_type |-> 0, nlmsg_flags |-> 0,
             nlmsg_seq |-> 0, nlmsg_pid |-> 0]
NoSub == [kind |-> "None", cmd |-> 0, ifi_index |-> 0, ifi_type |-> 0]

Item(kind, err, errno, header, at, g) ==
    [kind |-> kind, err |-> err, errno |-> errno, header |-> header, sub |-> NoSub,
     attributes_start |-> 0, attributes_end |-> 0, at |-> at, gen |-> g, bytes |-> <<>>]

ItemNone(header, at, g) == Item("None", "", 0, header, at, g)
ItemErr(err, errno, header, at, g) == Item("Err", err, errno, header, at, g)
ItemPanic(what, header, at, g) == Item("Panic", what, 0, header, at, g)
ItemBlocked == Item("Blocked", "", 0, NoHeader, 0, 0)

ItemPart(header, sub, astart, aend, at, g, bytes) ==
    [kind |-> "Part", err |-> "", errno |-> 0, header |-> header, sub |-> sub,
     attributes_start |-> astart, attributes_end |-> aend, at |-> at, gen |-> g,
     bytes |-> bytes]

\* The sub-header dispatch of next(): the arm taken for a message type
SubHeaderKind(msg_type, nlmsg_type) ==
    IF msg_type.kind = "Generic" /\ nlmsg_type = msg_type.family THEN "Generic"
    ELSE IF msg_type.kind = "Route" /\ (nlmsg_type = RTM_NEWLINK \/ nlmsg_type = RTM_DELLINK)
    THEN "RouteIfinfo"
    ELSE "Unsupported"

\* The NLMSG_ERROR arm: the cursor after the message and what is returned
ErrorArm(st, header, at, new_pos) ==
    With(i32_from_le_bytes(Slice(st.inner, new_pos, new_pos + 4)), LAMBDA errno :
        With(new_pos + 4, LAMBDA p1 :
       IF errno < 0
       THEN [st |-> [st EXCEPT !.pos = p1],
             item |-> ItemErr("OsError", errno, header, at, st.gen)]
       ELSE [st |-> [st EXCEPT !.pos = p1 + nl_size_of_aligned(SIZEOF_nlmsghdr)],
             item |-> ItemNone(header, at, st.gen)]))

\* The NLMSG_DONE arm
DoneArm(st, header, at, new_pos) ==
    IF BitAnd(header.nlmsg_flags, NLM_F_MULTI) # NLM_F_MULTI
    THEN [st |-> [st EXCEPT !.pos = new_pos],
          item |-> ItemPanic("assert NLM_F_MULTI", header, at, st.gen)]
    ELSE [st |-> [st EXCEPT !.pos = new_pos], item |-> ItemNone(header, at, st.gen)]

\* PartArm leaving the cursor at the message's attributes
PartArm_keep_pos(st, header, at, new_pos, current_msg_limit) ==
    With(deserialize(st.inner, new_pos, current_msg_limit, SIZEOF_genlmsghdr), LAMBDA d :
       IF d = None
       THEN [st |-> [st EXCEPT !.pos = new_pos],
             item |-> ItemErr("Truncated", 0, header, at, st.gen)]
       ELSE [st |-> [st EXCEPT !.pos = d[1].new_pos],
             item |-> ItemPart(header,
                               [kind |-> "Generic", cmd |-> genlmsghdr_of(d[1].bytes).cmd,
                                ifi_index |-> 0, ifi_type |-> 0],
                               d[1].new_pos, current_msg_limit, at, st.gen,
                               Slice(st.inner, at, current_msg_limit))])

\* The arm of a family or route message
PartArm(st, header, at, new_pos, current_msg_limit) ==
    With(SubHeaderKind(st.msg_type, header.nlmsg_type), LAMBDA k :
        With([st EXCEPT !.pos = new_pos], LAMBDA st1 :
       IF k = "Unsupported"
       THEN [st |-> st1, item |-> ItemPanic("Unsupported netlink family/msg type", header, at, st.gen)]
       ELSE With(deserialize(st.inner, new_pos, current_msg_limit,
                                 IF k = "Generic" THEN SIZEOF_genlmsghdr ELSE SIZEOF_ifinfomsg), LAMBDA d :
               IF d = None
               THEN [st |-> st1, item |-> ItemErr("Truncated", 0, header, at, st.gen)]
               ELSE With(IF k = "Generic"
                               THEN [kind |-> "Generic", cmd |-> genlmsghdr_of(d[1].bytes).cmd,
                                     ifi_index |-> 0, ifi_type |-> 0]
                               ELSE [kind |-> "RouteIfinfo", cmd |-> 0,
                                     ifi_index |-> ifinfomsg_of(d[1].bytes).ifi_index,
                                     ifi_type |-> ifinfomsg_of(d[1].bytes).ifi_type], LAMBDA sub :
                       [st |-> [st EXCEPT !.pos = current_msg_limit],
                        item |-> ItemPart(header, sub, d[1].new_pos, current_msg_limit,
                                          at, st.gen,
                                          Slice(st.inner, at, current_msg_limit))]))))

\* next() once a header has been read at st.pos
AfterHeader(st, header, new_pos) ==
    With(st.size - st.pos, LAMBDA available_size :
        With(st.pos, LAMBDA at :
       IF header.nlmsg_len > available_size
       THEN [st |-> [st EXCEPT !.pos = st.size],
             item |-> ItemErr("Truncated", 0, header, at, st.gen)]
       ELSE IF header.nlmsg_type = NLMSG_ERROR THEN ErrorArm(st, header, at, new_pos)
       ELSE IF header.nlmsg_type = NLMSG_DONE THEN DoneArm(st, header, at, new_pos)
       ELSE PartArm(st, header, at, new_pos, st.pos + header.nlmsg_len)))

\* PartIterator::next.  `size - pos` is computed first: when the cursor is
\* past the size it overflows, a panic in a build with overflow checks
\* (st.checks) and a wrapped, huge available_size in a build without.  A
\* header at a cursor that is not a multiple of 4 fails the alignment
\* assertions of deserialize.  A
\* truncated header makes the call receive and start again; recv takes
\* inner.borrow_mut(), which panics while a Ref of inner is alive, and
\* recvfrom blocks while the queue of a blocking socket is empty and fails
\* (would block) on a socket opened non-blocking (st.nonblock): the call
\* returns the error, the cursor at 0 and inner and size as they were.
RECURSIVE PartIterator_next(_)
PartIterator_next(st) ==
    IF st.pos > st.size /\ st.checks
    THEN [st |-> st, item |-> ItemPanic("size - pos", NoHeader, st.pos, st.gen)]
    ELSE With(deserialize(st.inner, st.pos, st.size, SIZEOF_nlmsghdr), LAMBDA d :
            IF d # None /\ ~deserialize_aligned(st.pos)
            THEN [st |-> st, item |-> ItemPanic("assert prefix.len() == 0", NoHeader, st.pos, st.gen)]
            ELSE IF d = None
            THEN IF st.refs > 0
                 THEN [st |-> [st EXCEPT !.pos = 0],
                       item |-> ItemPanic("already borrowed", NoHeader, 0, st.gen)]
                 ELSE IF st.sock = <<>>
                 THEN [st |-> [st EXCEPT !.pos = 0],
                       item |-> IF st.nonblock
                                THEN ItemErr("IoError", 0, NoHeader, 0, st.gen)
                                ELSE ItemBlocked]
                 ELSE PartIterator_next(recv([st EXCEPT !.pos = 0]))
            ELSE AfterHeader(st, nlmsghdr_of(d[1].bytes), d[1].new_pos))

\* MsgBuffer::new and recv_msgs on a socket's queue
MsgBuffer_new(msg_type, queue) ==
    [sock |-> queue, inner |-> <<>>, size |-> 0, pos |-> 0, gen |-> 0,
     msg_type |-> msg_type, refs |-> 0, checks |-> TRUE,
     nonblock |-> FALSE]

recv_msgs(st) == [st EXCEPT !.pos = 0]

-----------------------------------------------------------------------------
(* wireguard.rs: the request builders and receive loops of WireguardDev.   *)

Res(kind, val, err) == [kind |-> kind, val |-> val, err |-> err]

\* The first Nested(PEERS) view among the attributes of a part, if any
RECURSIVE find_peers(_)
find_peers(views) ==
    IF views = <<>> THEN None
    ELSE IF Head(views).nested /\ Head(views).type = WGDEVICE_A_PEERS THEN Some(Head(views))
    ELSE find_peers(Tail(views))

\* The sequence number of the message an item was parsed from (none for a
\* call that parsed no header)
SeenOf(item) == IF item.header = NoHeader THEN <<>> ELSE <<item.header.nlmsg_seq>>

\* What a receive loop returns when the call r to next() ends it
LoopOut(r, res) == [st |-> r.st, res |-> res, seen |-> SeenOf(r.item)]

\* The loop of get_peers over buffer.recv_msgs(): returns at the first
\* PEERS attribute, at the first error, or with an empty list at the end.
\* seen lists the sequence numbers of the messages the loop has parsed.
RECURSIVE get_peers_loop(_)
get_peers_loop(st) ==
    With(PartIterator_next(st), LAMBDA r :
       CASE r.item.kind = "None" -> LoopOut(r, Res("Ok", <<>>, ""))
         [] r.item.kind = "Err" -> LoopOut(r, Res("Err", <<>>, r.item.err))
         [] r.item.kind \in {"Panic", "Blocked"} -> LoopOut(r, Res(r.item.kind, <<>>, r.item.err))
         [] OTHER ->
              With(AttrViews(r.st.inner, r.item.attributes_start, r.item.attributes_end), LAMBDA it :
                  With(find_peers(it.views), LAMBDA found :
                 IF found # None
                 THEN With(Attribute_attributes(r.st.inner, found[1]), LAMBDA sub :
                          With(parse_peers(r.st.inner, sub.views), LAMBDA ps :
                         IF sub.panic \/ ps.kind = "Panic"
                         THEN LoopOut(r, Res("Panic", <<>>, "attribute"))
                         ELSE LoopOut(r, Res("Ok", ps.val, ""))))
                 ELSE IF it.panic THEN LoopOut(r, Res("Panic", <<>>, "attribute"))
                 ELSE With(get_peers_loop(r.st), LAMBDA rest :
                         [rest EXCEPT !.seen = SeenOf(r.item) \o @]))))

\* The loop `for mb_msg in buffer.recv_msgs() { mb_msg?; }` of set_peers and
\* remove_peer
RECURSIVE drain_loop(_)
drain_loop(st) ==
    With(PartIterator_next(st), LAMBDA r :
       CASE r.item.kind = "None" -> LoopOut(r, Res("Ok", <<>>, ""))
         [] r.item.kind = "Err" -> LoopOut(r, Res("Err", <<>>, r.item.err))
         [] r.item.kind \in {"Panic", "Blocked"} -> LoopOut(r, Res(r.item.kind, <<>>, r.item.err))
         [] OTHER -> With(drain_loop(r.st), LAMBDA rest :
                        [rest EXCEPT !.seen = SeenOf(r.item) \o @]))

\* The loop of subscribe: mb_msg.unwrap() panics on an error item
RECURSIVE unwrap_loop(_)
unwrap_loop(st) ==
    With(PartIterator_next(st), LAMBDA r :
       CASE r.item.kind = "None" -> LoopOut(r, Res("Ok", <<>>, ""))
         [] r.item.kind = "Err" -> LoopOut(r, Res("Panic", <<>>, "unwrap"))
         [] r.item.kind \in {"Panic", "Blocked"} -> LoopOut(r, Res(r.item.kind, <<>>, r.item.err))
         [] OTHER ->
              With(AttrViews(r.st.inner, r.item.attributes_start, r.item.attributes_end), LAMBDA it :
                 IF it.panic THEN LoopOut(r, Res("Panic", <<>>, "attribute"))
                 ELSE With(unwrap_loop(r.st), LAMBDA rest :
                         [rest EXCEPT !.seen = SeenOf(r.item) \o @])))

\* The message of get_peers, from the builder build_message returns
get_dev_cmd(b, index) ==
    attr(dump(b), WGDEVICE_A_IFINDEX, u32_to_le_bytes(index))

\* The message of set_peers
RECURSIVE set_peer_all(_, _)
set_peer_all(b, peers) ==
    IF peers = <<>> THEN b ELSE set_peer_all(set_peer(b, Head(peers)), Tail(peers))

set_dev_cmd(b, index, peers) ==
    attr_list_end(
      set_peer_all(
        attr_list_start(attr(b, WGDEVICE_A_IFINDEX, u32_to_le_bytes(index)),
                        WGDEVICE_A_PEERS),
        peers))

\* The message of remove_peer
remove_dev_cmd(b, index, peer_key) ==
    attr_list_end(
      remove_peer(
        attr_list_start(attr(b, WGDEVICE_A_IFINDEX, u32_to_le_bytes(index)),
                        WGDEVICE_A_PEERS),
        peer_key))

\* The message of subscribe
set_monitor_cmd(b, index) ==
    attr(attr(b, WGDEVICE_A_IFINDEX, u32_to_le_bytes(index)),
         WGDEVICE_A_MONITOR, u8_to_le_bytes(MonitorFlags))

-----------------------------------------------------------------------------
(* The values the specifications draw their inputs from *)

\* a family id the kernel may give to "wireguard"
WgFamily == 35
\* the index of the interface
IfIndex == 21

IpV4a == V4(<<10, 0, 0, 0>>)
IpV4b == V4(<<203, 0, 113, 5>>)
IpV6a == V6(<<32, 1, 13, 184>> \o Zeros(12))

Keys == {<<>>, [i \in 1..KeyLen |-> 160 + i]}
Endpoints == {None} \cup {Some([ip |-> i, port |-> p]) : i \in {IpV4b, IpV6a}, p \in {51820, 53476}}
AllowedIp == {[ip |-> IpV4a, mask |-> 24], [ip |-> IpV6a, mask |-> 32], [ip |-> IpV4b, mask |-> 0]}
AllowedIpLists == UNION {[1..n -> AllowedIp] : n \in 0..MaxIps}
Keepalives == {None, Some(0), Some(25), Some(65535)}

Peers == [peer_key : Keys, endpoint : Endpoints, allowed_ips : AllowedIpLists,
          keepalive : Keepalives]

-----------------------------------------------------------------------------
(* The kernel side of the wire: messages as the kernel lays them out.  The *)
(* attribute layout is that of nla_put / nla_nest_start, which the builder *)
(* operators above produce as well.                                        *)

\* A message of the kernel: type, flags and sequence number in the header,
\* then the body that builder b has accumulated after the header
KernelMsg(b, type, flags, seq) ==
    With([nlmsg_len |-> b.pos, nlmsg_type |-> type, nlmsg_flags |-> flags,
              nlmsg_seq |-> seq, nlmsg_pid |-> 0], LAMBDA h :
       write_obj_at(b, nlmsghdr_bytes(h), 0).inner)

\* NLMSG_DONE closing a dump: the header and the dump's return value
KernelDone(seq) ==
    nlmsghdr_bytes([nlmsg_len |-> SIZEOF_nlmsghdr + 4, nlmsg_type |-> NLMSG_DONE,
                    nlmsg_flags |-> NLM_F_MULTI, nlmsg_seq |-> seq, nlmsg_pid |-> 0])
        \o Zeros(4)

\* NLMSG_ERROR as netlink_ack builds it: errno, then the request's header
\* (an ack, or an error on a socket with NETLINK_CAP_ACK) or the whole
\* request (an error otherwise)
KernelError(errno, request, capped) ==
    With(IF capped \/ errno = 0 THEN SubSeq(request, 1, SIZEOF_nlmsghdr)
                ELSE request, LAMBDA echo :
       nlmsghdr_bytes([nlmsg_len |-> SIZEOF_nlmsghdr + 4 + Len(echo),
                       nlmsg_type |-> NLMSG_ERROR, nlmsg_flags |-> 0,
                       nlmsg_seq |-> nlmsghdr_of(request).nlmsg_seq, nlmsg_pid |-> 0])
         \o i32_to_le_bytes(errno) \o echo)

\* A peer nest holding a chosen subset of the peer's attributes: the key iff
\* has_key, the keepalive iff present, the endpoint iff present
peer_nest(b, peer, has_key) ==
    With(attr_list_start(b, 0), LAMBDA l0 :
        With(IF has_key THEN attr_bytes(l0, WGPEER_A_PUBLIC_KEY, peer.peer_key) ELSE l0, LAMBDA l1 :
        With( IF peer.keepalive # None
              THEN attr(l1, WGPEER_A_PERSISTENT_KEEPALIVE_INTERVAL,
                        u16_to_le_bytes(peer.keepalive[1]))
              ELSE l1, LAMBDA l2 :
        With( IF peer.endpoint # None
              THEN attr_endpoint(l2, WGPEER_A_ENDPOINT, peer.endpoint[1]) ELSE l2, LAMBDA l3 :
       attr_list_end(
         attr_list_end(set_allowed_ips(attr_list_start(l3, WGPEER_A_ALLOWEDIPS),
                                       peer.allowed_ips)))))))

RECURSIVE peer_nests(_, _, _)
peer_nests(b, peers, has_key) ==
    IF peers = <<>> THEN b
    ELSE peer_nests(peer_nest(b, Head(peers), has_key), Tail(peers), has_key)

\* One part of a GET_DEVICE dump: IFINDEX, then PEERS iff with_peers
KernelDevice(seq, family, index, peers, with_peers, has_key) ==
    With(attr(generic(MsgBuilder_new(family, seq), WG_CMD_GET_DEVICE),
                   WGDEVICE_A_IFINDEX, u32_to_le_bytes(index)), LAMBDA b0 :
        With( IF with_peers
              THEN attr_list_end(peer_nests(attr_list_start(b0, WGDEVICE_A_PEERS),
                                            peers, has_key))
              ELSE b0, LAMBDA b1 :
       KernelMsg(b1, family, NLM_F_MULTI, seq)))

-----------------------------------------------------------------------------
(* Values of the variables a specification does not use *)

NoPeer == [peer_key |-> <<>>, endpoint |-> None, allowed_ips |-> <<>>, keepalive |-> None]
NoSession == [seq |-> 0, family |-> 0, mcast_groups |-> <<>>]
NoDev == [links |-> <<>>, filter |-> None, res |-> Res("", <<>>, "")]

bufVars == <<sock, inner, size, pos, gen>>

-----------------------------------------------------------------------------
(* SpecPeer: one Peer through set_peer and back through Peer::new.         *)
(* SetPeers builds the SET_DEVICE message of set_peers for inPeer;         *)
(* PeerNest writes instead a peer nest without PUBLIC_KEY; ParsePeers      *)
(* receives the message into a MsgBuffer of the same family and runs the   *)
(* receive loop of get_peers (parse_peers, Peer::new) on it.               *)

PeerInit ==
    /\ pc = "start"
    /\ inPeer \in Peers
    /\ sent = <<>>
    /\ sock = <<>>
    /\ inner = <<>>
    /\ size = 0
    /\ pos = 0
    /\ gen = 0
    /\ items = <<>>
    /\ held = <<>>
    /\ refs = 0
    /\ outPeer = Res("", <<>>, "")
    /\ nl = NoSession
    /\ log = <<>>
    /\ dev = NoDev

SetPeers ==
    /\ pc = "start"
    /\ With(set_dev_cmd(generic(MsgBuilder_new(WgFamily, 2), WG_CMD_SET_DEVICE), IfIndex, <<inPeer>>), LAMBDA b :
          /\ b.ok
          /\ sent' = sendto(b)
          /\ sock' = <<sendto(b)>>)
    /\ log' = <<"set_peer">>
    /\ pc' = "sent"
    /\ UNCHANGED <<inPeer, inner, size, pos, gen, items, held, refs, outPeer, nl, dev>>

PeerNest ==
    /\ pc = "start"
    /\ With(KernelDevice(2, WgFamily, IfIndex, <<inPeer>>, TRUE, FALSE), LAMBDA m :
          /\ sent' = m
          /\ sock' = <<m>>)
    /\ log' = <<"peer_nest">>
    /\ pc' = "sent"
    /\ UNCHANGED <<inPeer, inner, size, pos, gen, items, held, refs, outPeer, nl, dev>>

ParsePeers ==
    /\ pc = "sent"
    /\ With(get_peers_loop(MsgBuffer_new(Generic(WgFamily), sock)), LAMBDA r :
          /\ outPeer' = r.res
          /\ sock' = r.st.sock
          /\ inner' = r.st.inner
          /\ size' = r.st.size
          /\ pos' = r.st.pos
          /\ gen' = r.st.gen)
    /\ pc' = "parsed"
    /\ UNCHANGED <<inPeer, sent, items, held, refs, nl, log, dev>>

PeerNext == SetPeers \/ PeerNest \/ ParsePeers

SpecPeer == PeerInit /\ [][PeerNext]_vars

-----------------------------------------------------------------------------
(* Claims on SpecPeer *)

\* The peer nests of a one-message datagram: the children of its PEERS nest
PeerNestsOf(bytes) ==
    With(AttrViews(bytes, nl_size_of_aligned(SIZEOF_nlmsghdr)
                                  + nl_size_of_aligned(SIZEOF_genlmsghdr), Len(bytes)), LAMBDA top :
        With(find_peers(top.views), LAMBDA found :
       IF found = None THEN <<>> ELSE Attribute_attributes(bytes, found[1]).views))

\* Whether a peer nest holds a PUBLIC_KEY attribute
HasPublicKey(bytes, nest) ==
    \E i \in 1..Len(Attribute_attributes(bytes, nest).views) :
        With(Attribute_attributes(bytes, nest).views[i], LAMBDA a :
           ~a.nested /\ a.type = WGPEER_A_PUBLIC_KEY)

RoundTripDone == pc = "parsed" /\ log = <<"set_peer">>

\* C1 as stated: every Peer, keepalive Some(0) included, comes back from
\* set_peer followed by Peer::new equal to the input in all four fields.
C1_RoundTripAnyKeepalive ==
    RoundTripDone => outPeer = Res("Ok", <<inPeer>>, "")

\* C1 amended: a Peer whose keepalive is absent or non-zero comes back equal
\* to the input (allowed-ips in the same order); a keepalive of Some(0)
\* comes back as None, the other three fields equal.
C1_RoundTrip ==
    RoundTripDone =>
        outPeer = Res("Ok",
                      <<IF inPeer.keepalive = Some(0)
                        THEN [inPeer EXCEPT !.keepalive = None] ELSE inPeer>>, "")

\* C1 witness: an IPv4 endpoint, two allowed-ips of both families and a
\* non-zero keepalive have made the round trip.
C1_Witness ==
    /\ RoundTripDone
    /\ inPeer.endpoint = Some([ip |-> IpV4b, port |-> 53476])
    /\ Len(inPeer.allowed_ips) = 2
    /\ inPeer.allowed_ips[1].ip.v # inPeer.allowed_ips[2].ip.v
    /\ inPeer.keepalive = Some(65535)
    /\ inPeer.peer_key # <<>>
    /\ outPeer.val = <<inPeer>>

\* C2: Peer::new returns a peer exactly for the peer nests that hold a
\* PUBLIC_KEY attribute, and None for a nest without one (so parse_peers
\* keeps one Peer per nest with a key).
C2_NoKeyNoPeer ==
    pc = "parsed" =>
        /\ outPeer.kind = "Ok"
        /\ Len(outPeer.val)
             = Cardinality({i \in 1..Len(PeerNestsOf(sent)) :
                              HasPublicKey(sent, PeerNestsOf(sent)[i])})

-----------------------------------------------------------------------------
(* SpecIter: a PartIterator over the replies queued on a socket.           *)
(* The queue holds either a dump reply (k parts and NLMSG_DONE, cut into   *)
(* datagrams at any message boundaries) or an NLMSG_ERROR reply to a       *)
(* request.  IterNext is one call of next(); the caller goes on calling    *)
(* after an Err item and stops at None, at a panic, or when recvfrom       *)
(* blocks.                                                                 *)

\* most parts of a dump reply
MaxParts == 3

\* The i-th part of the dump: the device message, with a peer in the even parts
DumpPart(i) ==
    KernelDevice(2, WgFamily, i,
                 <<[NoPeer EXCEPT !.peer_key = <<i>>]>>, i % 2 = 0, TRUE)

\* The messages of a dump of k parts
DumpMsgs(k) == [i \in 1..(k + 1) |-> IF i <= k THEN DumpPart(i) ELSE KernelDone(2)]

\* Messages laid out in datagrams: message i opens a new datagram iff i = 1
\* or i - 1 is in cuts
RECURSIVE Datagrams(_, _, _)
Datagrams(msgs, cuts, i) ==
    IF i > Len(msgs) THEN <<>>
    ELSE With(Datagrams(msgs, cuts, i + 1), LAMBDA rest :
            IF i = Len(msgs) \/ i \in cuts THEN <<msgs[i]>> \o rest
            ELSE <<msgs[i] \o Head(rest)>> \o Tail(rest))

DumpScenarios ==
    {[kind |-> "dump", k |-> k, cuts |-> c, errno |-> 0, capped |-> FALSE] :
        k \in 0..MaxParts, c \in SUBSET (1..MaxParts)} \
    {sc \in [kind : {"dump"}, k : 0..MaxParts, cuts : SUBSET (1..MaxParts),
             errno : {0}, capped : {FALSE}] : ~(sc.cuts \subseteq 1..sc.k)}

ErrorScenarios ==
    {[kind |-> "error", k |-> r, cuts |-> {}, errno |-> e, capped |-> c] :
        r \in 1..2, e \in {0, -2, -19}, c \in BOOLEAN}

\* The request an error scenario answers: get_peers' (1) or set_peers' (2)
ScenarioRequest(sc) ==
    IF sc.k = 1 THEN sendto(get_dev_cmd(generic(MsgBuilder_new(WgFamily, 2), WG_CMD_GET_DEVICE), IfIndex))
    ELSE sendto(set_dev_cmd(generic(MsgBuilder_new(WgFamily, 2), WG_CMD_SET_DEVICE), IfIndex,
                            <<[NoPeer EXCEPT !.peer_key = <<7>>]>>))

ScenarioQueue(sc) ==
    IF sc.kind = "dump" THEN Datagrams(DumpMsgs(sc.k), sc.cuts, 1)
    ELSE <<KernelError(sc.errno, ScenarioRequest(sc), sc.capped)>>

\* The receive side as one record, and its assignment to the variables
St == [sock |-> sock, inner |-> inner, size |-> size, pos |-> pos, gen |-> gen,
       msg_type |-> Generic(nl.family), refs |-> refs, checks |-> TRUE,
       nonblock |-> FALSE]

SetSt(st) ==
    /\ sock' = st.sock
    /\ inner' = st.inner
    /\ size' = st.size
    /\ pos' = st.pos
    /\ gen' = st.gen

IterInit ==
    /\ pc = "iter"
    /\ log \in DumpScenarios \cup ErrorScenarios
    /\ sock = ScenarioQueue(log)
    /\ inner = <<>>
    /\ size = 0
    /\ pos = 0
    /\ gen = 0
    /\ items = <<>>
    /\ held = <<>>
    /\ refs = 0
    /\ inPeer = NoPeer
    /\ sent = <<>>
    /\ outPeer = Res("", <<>>, "")
    /\ nl = [NoSession EXCEPT !.family = WgFamily]
    /\ dev = NoDev

IterNext ==
    /\ pc = "iter"
    /\ With(PartIterator_next(St), LAMBDA r :
          /\ SetSt(r.st)
          /\ items' = Append(items, r.item)
          /\ pc' = CASE r.item.kind = "None" -> "ended"
                     [] r.item.kind \in {"Panic", "Blocked"} -> "stuck"
                     [] OTHER -> "iter")
    /\ UNCHANGED <<inPeer, sent, held, refs, outPeer, nl, log, dev>>

SpecIter == IterInit /\ [][IterNext]_vars

-----------------------------------------------------------------------------
(* Claims on SpecIter *)

IsYield(it) == it.kind \in {"Part", "Err"}

\* The items next() has yielded (Some(..)), oldest first
Yields == SelectSeq(items, IsYield)

\* C6: for a dump reply of k parts and NLMSG_DONE (MULTI), in one datagram
\* or cut into several, the iterator yields the k parts in order, refilling
\* the buffer when it is exhausted, never blocks or panics on the way, and
\* ends with None at the DONE message, having yielded exactly k items and
\* nothing for DONE.
C6_MultiPartTermination ==
    log.kind = "dump" =>
        /\ pc # "stuck"
        /\ Len(Yields) <= log.k
        /\ \A i \in 1..Len(Yields) :
              Yields[i].kind = "Part" /\ Yields[i].bytes = DumpPart(i)
        /\ pc = "ended" =>
              /\ Len(Yields) = log.k
              /\ items[Len(items)].kind = "None"
              /\ items[Len(items)].header.nlmsg_type = NLMSG_DONE
              /\ Len(items) = log.k + 1
              /\ sock = <<>>

\* C6 witness: a dump of three parts cut into three datagrams (the first
\* holding two parts, DONE alone in the last) has been iterated to its end.
C6_Witness ==
    /\ log.kind = "dump" /\ log.k = 3 /\ log.cuts = {2, 3}
    /\ pc = "ended"
    /\ gen = 3
    /\ Len(Yields) = 3

\* C7: a buffer holding an NLMSG_ERROR message with a negative errno makes
\* the iterator yield that one OsError and no further item (nothing parsed
\* from the echoed request after the errno); with errno 0 it yields no item.
C7_ErrorSurfacing ==
    log.kind = "error" =>
        IF log.errno < 0
        THEN /\ Len(Yields) <= 1
             /\ Len(Yields) = 1 =>
                   Yields[1].kind = "Err" /\ Yields[1].err = "OsError"
                       /\ Yields[1].errno = log.errno
             /\ pc # "iter" => Len(Yields) = 1
        ELSE Yields = <<>>

-----------------------------------------------------------------------------
(* SpecView: views and refills.  The caller of recv_msgs() keeps the       *)
(* MsgPart items it was given (items), asks a kept part for its first      *)
(* attribute (held), reads a kept attribute with get_bytes (which leaves a *)
(* Ref of inner alive until it is dropped) and goes on calling next().     *)
(* A MsgPart and an Attribute hold `&MsgBuffer` and offsets                *)
(* (recv.rs:94-98, 179-184), so all of this borrow-checks.  Every access   *)
(* is written to log with the receive count the view was made at (of) and  *)
(* the receive count at the access (at).                                   *)

MaxHeld == 2
MaxReads == 2
MaxRefs == 1

NoAttr == [payload_start |-> 0, payload_end |-> 0, nested |-> FALSE, type |-> 0]

Read(what, of, at, bytes) == [what |-> what, of |-> of, at |-> at, bytes |-> bytes]

ViewInit ==
    /\ pc = "iter"
    /\ \E sc \in DumpScenarios : sc.k >= 1 /\ sock = ScenarioQueue(sc)
    /\ inner = <<>>
    /\ size = 0
    /\ pos = 0
    /\ gen = 0
    /\ items = <<>>
    /\ held = <<>>
    /\ refs = 0
    /\ log = <<>>
    /\ inPeer = NoPeer
    /\ sent = <<>>
    /\ outPeer = Res("", <<>>, "")
    /\ nl = [NoSession EXCEPT !.family = WgFamily]
    /\ dev = NoDev

\* PartIterator::next; the caller keeps the item
ViewNext ==
    /\ pc = "iter"
    /\ With(PartIterator_next(St), LAMBDA r :
          /\ SetSt(r.st)
          /\ items' = Append(items, r.item)
          /\ pc' = CASE r.item.kind = "None" -> "ended"
                     [] r.item.kind \in {"Panic", "Blocked"} -> "stuck"
                     [] OTHER -> "iter")
    /\ UNCHANGED <<inPeer, sent, held, refs, outPeer, nl, log, dev>>

\* MsgPart::attributes().next() on a kept part: the nlattr is read from the
\* buffer as it is now
PartAttributes ==
    /\ pc \in {"iter", "ended"}
    /\ Len(held) < MaxHeld
    /\ Len(log) < MaxReads
    /\ \E i \in 1..Len(items) :
          /\ items[i].kind = "Part"
          /\ With(AttributeIterator_next(inner, items[i].attributes_start,
                                             items[i].attributes_end), LAMBDA r :
                /\ log' = Append(log, Read("attributes", items[i].gen, gen,
                                           Slice(inner, items[i].attributes_start,
                                                 items[i].attributes_end)))
                /\ held' = IF r.kind = "Some"
                           THEN Append(held, [attr |-> r.attr[1], gen |-> gen])
                           ELSE held
                /\ pc' = IF r.kind = "Panic" THEN "stuck" ELSE pc)
    /\ UNCHANGED <<inPeer, sent, sock, inner, size, pos, gen, items, refs, outPeer, nl, dev>>

\* Attribute::get_bytes on a kept attribute: Ref::map(inner.borrow(), ..)
GetBytes ==
    /\ pc \in {"iter", "ended"}
    /\ refs < MaxRefs
    /\ Len(log) < MaxReads
    /\ \E i \in 1..Len(held) :
          log' = Append(log, Read("get_bytes", held[i].gen, gen,
                                  get_bytes(inner, held[i].attr)))
    /\ refs' = refs + 1
    /\ UNCHANGED <<pc, inPeer, sent, sock, inner, size, pos, gen, items, held, outPeer, nl, dev>>

\* The Ref returned by get_bytes goes out of scope
DropRef ==
    /\ pc \in {"iter", "ended"}
    /\ refs > 0
    /\ refs' = refs - 1
    /\ UNCHANGED <<pc, inPeer, sent, sock, inner, size, pos, gen, items, held, outPeer, nl, log, dev>>

ViewStep == ViewNext \/ PartAttributes \/ GetBytes \/ DropRef

SpecView == ViewInit /\ [][ViewStep]_vars

\* C5: no view made before a refill of the buffer is read after it: every
\* access recorded in log (MsgPart::attributes on a kept part, get_bytes on
\* a kept attribute) happens at the receive count the view was made at, a
\* receive in between having failed instead.
C5_NoUseAfterRefill ==
    \A i \in 1..Len(log) : log[i].of = log[i].at

-----------------------------------------------------------------------------
(* generic.rs: NetlinkGeneric.  A session is [seq, family, mcast_groups];  *)
(* mcast_groups is a function from group names to ids.                     *)

\* "wireguard\0" and "peers\0"
WG_GENL_NAME == <<119, 105, 114, 101, 103, 117, 97, 114, 100, 0>>
WG_MULTICAST_GROUP_PEERS == <<112, 101, 101, 114, 115, 0>>

\* The struct NetlinkGeneric::new starts from
NetlinkGeneric_new == [seq |-> 1, family |-> GENL_ID_CTRL, mcast_groups |-> <<>>]

\* build_message with the counter left as it is
build_message_same_seq(s, cmd) ==
    [nl |-> s, builder |-> generic(MsgBuilder_new(s.family, s.seq), cmd)]

\* build_message: the builder, and the session with seq incremented
build_message(s, cmd) ==
    [nl |-> [s EXCEPT !.seq = s.seq + 1],
     builder |-> generic(MsgBuilder_new(s.family, s.seq), cmd)]

\* send: the bytes go to the kernel, the buffer reads the session's socket
send(s, queue) == MsgBuffer_new(Generic(s.family), queue)

\* The inner loop of add_mcast_groups over the items of one group
RECURSIVE mcast_item_loop(_, _, _)
mcast_item_loop(b, views, acc) ==
    IF views = <<>> \/ acc.panic THEN acc
    ELSE With(Head(views), LAMBDA item :
            IF ~item.nested /\ item.type = CTRL_ATTR_MCAST_GRP_NAME
            THEN mcast_item_loop(b, Tail(views),
                                 [acc EXCEPT !.name = cstring_from_attr(get_bytes(b, item))])
            ELSE IF ~item.nested /\ item.type = CTRL_ATTR_MCAST_GRP_ID
            THEN With(from_attr(get_bytes(b, item), 4), LAMBDA v :
                    IF v.kind = "Panic" THEN [acc EXCEPT !.panic = TRUE]
                    ELSE mcast_item_loop(b, Tail(views), [acc EXCEPT !.id = Some(v.val)]))
            ELSE mcast_item_loop(b, Tail(views), acc))

\* The outer loop of add_mcast_groups: [groups, panic]
RECURSIVE mcast_group_loop(_, _, _)
mcast_group_loop(b, views, groups) ==
    IF views = <<>> THEN [groups |-> groups, panic |-> FALSE]
    ELSE With(Attribute_attributes(b, make_nested(Head(views))), LAMBDA sub :
             With(mcast_item_loop(b, sub.views,
                                    [id |-> None, name |-> None, panic |-> FALSE]), LAMBDA acc :
            IF acc.panic \/ sub.panic THEN [groups |-> groups, panic |-> TRUE]
            ELSE IF acc.id # None /\ acc.name # None
            THEN mcast_group_loop(b, Tail(views), (acc.name[1] :> acc.id[1]) @@ groups)
            ELSE mcast_group_loop(b, Tail(views), groups)))

add_mcast_groups(b, groups, attribute) ==
    With(Attribute_attributes(b, make_nested(attribute)), LAMBDA outer :
        With(mcast_group_loop(b, outer.views, groups), LAMBDA r :
       [r EXCEPT !.panic = @ \/ outer.panic]))

\* The attributes of one GETFAMILY reply message: acc is [fid, groups, panic]
RECURSIVE family_attr_loop(_, _, _)
family_attr_loop(b, views, acc) ==
    IF views = <<>> \/ acc.panic THEN acc
    ELSE With(Head(views), LAMBDA a :
            IF ~a.nested /\ a.type = CTRL_ATTR_FAMILY_ID
            THEN With(from_attr(get_bytes(b, a), 2), LAMBDA v :
                    IF v.kind = "Panic" THEN [acc EXCEPT !.panic = TRUE]
                    ELSE family_attr_loop(b, Tail(views), [acc EXCEPT !.fid = Some(v.val)]))
            ELSE IF ~a.nested /\ a.type = CTRL_ATTR_MCAST_GROUPS
            THEN With(add_mcast_groups(b, acc.groups, a), LAMBDA g :
                    family_attr_loop(b, Tail(views),
                                     [acc EXCEPT !.groups = g.groups, !.panic = g.panic]))
            ELSE family_attr_loop(b, Tail(views), acc))

FamilyOut(r, res, a) == [st |-> r.st, res |-> res, acc |-> a, seen |-> SeenOf(r.item)]

\* The first loop of set_family_info: [st, res, acc, seen]
RECURSIVE family_loop(_, _)
family_loop(st, acc) ==
    With(PartIterator_next(st), LAMBDA r :
       CASE r.item.kind = "None" -> FamilyOut(r, Res("Ok", <<>>, ""), acc)
         [] r.item.kind = "Err" -> FamilyOut(r, Res("Err", <<>>, r.item.err), acc)
         [] r.item.kind \in {"Panic", "Blocked"} -> FamilyOut(r, Res(r.item.kind, <<>>, r.item.err), acc)
         [] OTHER ->
              With(AttrViews(r.st.inner, r.item.attributes_start, r.item.attributes_end), LAMBDA it :
                  With(family_attr_loop(r.st.inner, it.views, acc), LAMBDA a1 :
                 IF it.panic \/ a1.panic THEN FamilyOut(r, Res("Panic", <<>>, "attribute"), a1)
                 ELSE With(family_loop(r.st, a1), LAMBDA rest :
                         [rest EXCEPT !.seen = SeenOf(r.item) \o @]))))

\* The second loop of set_family_info: every item is printed
RECURSIVE print_loop(_)
print_loop(st) ==
    With(PartIterator_next(st), LAMBDA r :
       CASE r.item.kind = "None" -> LoopOut(r, Res("Ok", <<>>, ""))
         [] r.item.kind \in {"Panic", "Blocked"} -> LoopOut(r, Res(r.item.kind, <<>>, r.item.err))
         [] OTHER -> With(print_loop(r.st), LAMBDA rest :
                        [rest EXCEPT !.seen = SeenOf(r.item) \o @]))

\* The end of set_family_info with a missing family id let through
family_result_lenient(s, fid, groups) ==
    [nl |-> [s EXCEPT !.mcast_groups = groups,
                      !.family = IF fid = None THEN @ ELSE fid[1]],
     res |-> Res("Ok", <<>>, "")]

\* The end of set_family_info: `match fid`, then the groups are stored
family_result(s, fid, groups) ==
    IF fid = None THEN [nl |-> s, res |-> Res("Err", <<>>, "Invalid")]
    ELSE [nl |-> [s EXCEPT !.family = fid[1], !.mcast_groups = groups],
          res |-> Res("Ok", <<>>, "")]

\* The GETFAMILY request of set_family_info
get_family_cmd(b, family_name) == attr_bytes(b, CTRL_ATTR_FAMILY_NAME, family_name)

\* set_family_info once the request is sent and the kernel's reply is on
\* queue: [nl, res, st, seen]
set_family_info(s, queue) ==
    With(send(s, queue), LAMBDA buffer :
        With( family_loop(recv_msgs(buffer),
                          [fid |-> None, groups |-> <<>>, panic |-> FALSE]), LAMBDA l1 :
       IF l1.res.kind # "Ok"
       THEN [nl |-> s, res |-> l1.res, st |-> l1.st, seen |-> l1.seen]
       ELSE With(print_loop(recv_msgs(l1.st)), LAMBDA l2 :
               IF l2.res.kind # "Ok"
               THEN [nl |-> s, res |-> l2.res, st |-> l2.st, seen |-> l1.seen \o l2.seen]
               ELSE With(family_result(s, l1.acc.fid, l1.acc.groups), LAMBDA f :
                       [nl |-> f.nl, res |-> f.res, st |-> l2.st,
                        seen |-> l1.seen \o l2.seen]))))

\* NetlinkGeneric::subscribe with id 0 taken for a group
subscribe_zero_ok(s, group_name) ==
    With(cstring_from_attr(group_name), LAMBDA name :
       IF name = None THEN Res("Err", <<>>, "FromBytesWithNul")
       ELSE IF name[1] \notin DOMAIN s.mcast_groups THEN Res("Err", <<>>, "WrongGroupName")
       ELSE Res("Ok", <<>>, ""))

\* NetlinkGeneric::subscribe: the lookup of the group
subscribe(s, group_name) ==
    With(cstring_from_attr(group_name), LAMBDA name :
       IF name = None THEN Res("Err", <<>>, "FromBytesWithNul")
       ELSE IF name[1] \notin DOMAIN s.mcast_groups THEN Res("Err", <<>>, "WrongGroupName")
       ELSE IF s.mcast_groups[name[1]] = 0 THEN Res("Err", <<>>, "InvalidGroupId")
       ELSE Res("Ok", <<>>, ""))

-----------------------------------------------------------------------------
(* The kernel's replies on a generic netlink session.                      *)

\* nla_nest_end of a nest opened with nla_nest_start_noflag (the controller
\* does not set NLA_F_NESTED, see generic.rs:81-82)
nest_end_noflag(b) ==
    With(b.nests[Len(b.nests)], LAMBDA n :
        With( write_obj_at(b, nlattr_bytes((b.pos - n.start_pos) % 65536,
                                           n.nla_type % NLA_F_NESTED), n.start_pos), LAMBDA b1 :
       [b1 EXCEPT !.nests = SubSeq(@, 1, Len(@) - 1)]))

\* The entries of CTRL_ATTR_MCAST_GROUPS: entry i holds the id and, iff
\* has_name, the name of group i
RECURSIVE group_nests(_, _, _)
group_nests(b, groups, i) ==
    IF i > Len(groups) THEN b
    ELSE With(groups[i], LAMBDA g :
             With(attr_list_start(b, i), LAMBDA l0 :
             With(attr(l0, CTRL_ATTR_MCAST_GRP_ID, u32_to_le_bytes(g.id)), LAMBDA l1 :
             With( IF g.has_name THEN attr_bytes(l1, CTRL_ATTR_MCAST_GRP_NAME, g.name)
                   ELSE l1, LAMBDA l2 :
            group_nests(nest_end_noflag(l2), groups, i + 1)))))

\* The controller's answer to GETFAMILY: a reply variant v is
\* [errno, has_fid, fid, groups]
KernelFamily(seq, v) ==
    With(generic(MsgBuilder_new(GENL_ID_CTRL, seq), CTRL_CMD_NEWFAMILY), LAMBDA b0 :
        With(attr_bytes(b0, CTRL_ATTR_FAMILY_NAME, WG_GENL_NAME), LAMBDA b1 :
        With(IF v.has_fid THEN attr(b1, CTRL_ATTR_FAMILY_ID, u16_to_le_bytes(v.fid)) ELSE b1, LAMBDA b2 :
        With( IF v.groups # <<>>
              THEN nest_end_noflag(group_nests(attr_list_start(b2, CTRL_ATTR_MCAST_GROUPS),
                                               v.groups, 1))
              ELSE b2, LAMBDA b3 :
       KernelMsg(b3, GENL_ID_CTRL, 0, seq)))))

\* The datagrams that answer a GETFAMILY request: an error, or the reply
\* and the ack the request's NLM_F_ACK asks for
FamilyReply(request, v) ==
    IF v.errno < 0 THEN <<KernelError(v.errno, request, FALSE)>>
    ELSE <<KernelFamily(nlmsghdr_of(request).nlmsg_seq, v), KernelError(0, request, FALSE)>>

Group(name, id, has_name) == [name |-> name, id |-> id, has_name |-> has_name]

GroupLists ==
    {<<>>,
     <<Group(WG_MULTICAST_GROUP_PEERS, 9, TRUE)>>,
     <<Group(WG_MULTICAST_GROUP_PEERS, 0, TRUE), Group(<<120, 0>>, 10, FALSE),
       Group(<<121, 0>>, 300, TRUE)>>}

FamilyVariants ==
    [errno : {0}, has_fid : BOOLEAN, fid : {WgFamily, WgFamily + 256}, groups : GroupLists]
        \cup [errno : {-2}, has_fid : {FALSE}, fid : {0}, groups : {<<>>}]

NoVariant == [errno |-> 0, has_fid |-> FALSE, fid |-> 0, groups |-> <<>>]

\* The name -> id table of a reply: the groups that carry a name
GroupTable(groups) ==
    With({i \in 1..Len(groups) : groups[i].has_name}, LAMBDA named :
       [n \in {SubSeq(groups[i].name, 1, Len(groups[i].name) - 1) : i \in named} |->
           groups[CHOOSE i \in named :
                     SubSeq(groups[i].name, 1, Len(groups[i].name) - 1) = n].id])

\* The peers of the interface, cut into the consecutive runs the parts of a
\* dump carry
RECURSIVE Chunkings(_)
Chunkings(peers) ==
    IF peers = <<>> THEN {<<>>}
    ELSE UNION {{<<SubSeq(peers, 1, n)>> \o rest :
                    rest \in Chunkings(SubSeq(peers, n + 1, Len(peers)))} :
                n \in 1..Len(peers)}

\* The parts of a GET_DEVICE dump for a chunking (one part without PEERS for
\* an interface without peers), then NLMSG_DONE
DeviceDump(request, index, chunks) ==
    With(nlmsghdr_of(request), LAMBDA h :
        With(IF chunks = <<>>
                 THEN <<KernelDevice(h.nlmsg_seq, h.nlmsg_type, index, <<>>, FALSE, TRUE)>>
                 ELSE [i \in 1..Len(chunks) |->
                          KernelDevice(h.nlmsg_seq, h.nlmsg_type, index, chunks[i], TRUE, TRUE)], LAMBDA parts :
       parts \o <<KernelDone(h.nlmsg_seq)>>))

\* The datagram queues that may answer a GET_DEVICE dump request
GetReplies(request, index, peers) ==
    {<<KernelError(-19, request, FALSE)>>} \cup
    UNION {With(DeviceDump(request, index, ch), LAMBDA msgs :
              {Datagrams(msgs, cuts, 1) : cuts \in SUBSET (1..(Len(msgs) - 1))}) :
           ch \in Chunkings(peers)}

\* The datagram that answers a SET_DEVICE request: the ack or an error
SetReply(request, errno) == <<KernelError(errno, request, FALSE)>>

-----------------------------------------------------------------------------
(* Spec: one NetlinkGeneric session of a WireguardDev.  New is             *)
(* NetlinkGeneric::new; GetPeers, SetPeers, RemovePeer and Subscribe are   *)
(* the methods of WireguardDev, each a whole call: the request is built    *)
(* and sent, the kernel queues its reply on the session's socket, and the  *)
(* method's receive loop runs until the method returns.  sock is what is   *)
(* queued on the socket between calls.  log lists the (seq, type) of the   *)
(* header of every message built.  dev holds the kernel's peers and, of    *)
(* the last call: its name (op), the seq of its request (req), the seqs of *)
(* the messages its loop parsed (seen), whether the socket was empty when  *)
(* it began (clean) and the type of its receive buffer (buf); variant is   *)
(* the GETFAMILY reply New was given and new_res what New returned.        *)

MaxCalls == 2

PeerKeys == {[i \in 1..KeyLen |-> 161], [i \in 1..KeyLen |-> 162]}

KernelPeer(key) == [NoPeer EXCEPT !.peer_key = key]

PeerLists ==
    {<<>>} \cup {<<KernelPeer(k)>> : k \in PeerKeys}
           \cup {<<KernelPeer(ks[1]), KernelPeer(ks[2])>> :
                   ks \in {kk \in PeerKeys \X PeerKeys : kk[1] # kk[2]}}

RECURSIVE WithoutKey(_, _)
WithoutKey(peers, key) ==
    IF peers = <<>> THEN <<>>
    ELSE IF Head(peers).peer_key = key THEN WithoutKey(Tail(peers), key)
    ELSE <<Head(peers)>> \o WithoutKey(Tail(peers), key)

WithKey(peers, key) ==
    IF \E i \in 1..Len(peers) : peers[i].peer_key = key THEN peers
    ELSE Append(peers, KernelPeer(key))

HeaderOf(request) ==
    [seq |-> nlmsghdr_of(request).nlmsg_seq, type |-> nlmsghdr_of(request).nlmsg_type]

Init ==
    /\ pc = "start"
    /\ nl = NoSession
    /\ dev \in [peers : PeerLists, op : {""}, req : {0}, seen : {<<>>}, clean : {TRUE},
                buf : {Generic(0)}, variant : {NoVariant}, new_res : {Res("", <<>>, "")}]
    /\ sock = <<>>
    /\ inner = <<>>
    /\ size = 0
    /\ pos = 0
    /\ gen = 0
    /\ sent = <<>>
    /\ log = <<>>
    /\ outPeer = Res("", <<>>, "")
    /\ items = <<>>
    /\ held = <<>>
    /\ refs = 0
    /\ inPeer = NoPeer

\* What every call leaves behind: the request, its header in log, the
\* socket and the buffer the loop l ended with, and whether the call returned
Called(request, l) ==
    /\ sent' = request
    /\ log' = Append(log, HeaderOf(request))
    /\ SetSt(l.st)
    /\ outPeer' = l.res
    /\ UNCHANGED <<inPeer, items, held, refs>>

LastCall(op, request, buffer, l) ==
    [dev EXCEPT !.op = op, !.req = nlmsghdr_of(request).nlmsg_seq, !.seen = l.seen,
                !.clean = (sock = <<>>), !.buf = buffer.msg_type]

\* NetlinkGeneric::new(flags, WG_GENL_NAME)
New ==
    /\ pc = "start"
    /\ \E v \in FamilyVariants :
          With(NetlinkGeneric_new, LAMBDA s0 :
              With(build_message(s0, CTRL_CMD_GETFAMILY), LAMBDA bm :
              With(sendto(get_family_cmd(bm.builder, WG_GENL_NAME)), LAMBDA request :
              With(set_family_info(bm.nl, sock \o FamilyReply(request, v)), LAMBDA r :
             /\ Called(request, r)
             /\ nl' = r.nl
             /\ dev' = [LastCall("new", request, send(bm.nl, sock), r)
                           EXCEPT !.variant = v, !.new_res = r.res]
             /\ pc' = CASE r.res.kind = "Ok" -> "ready"
                        [] r.res.kind = "Err" -> "failed"
                        [] OTHER -> "stuck"))))

Returned(l) == IF l.res.kind \in {"Panic", "Blocked"} THEN "stuck" ELSE "ready"

\* WireguardDev::get_peers
GetPeers ==
    /\ pc = "ready"
    /\ Len(log) <= MaxCalls
    /\ With(build_message(nl, WG_CMD_GET_DEVICE), LAMBDA bm :
           With(sendto(get_dev_cmd(bm.builder, IfIndex)), LAMBDA request :
          \E reply \in GetReplies(request, IfIndex, dev.peers) :
             With(send(bm.nl, sock \o reply), LAMBDA buffer :
                 With(get_peers_loop(recv_msgs(buffer)), LAMBDA l :
                /\ Called(request, l)
                /\ nl' = bm.nl
                /\ dev' = LastCall("get_peers", request, buffer, l)
                /\ pc' = Returned(l)))))

\* WireguardDev::set_peers with one peer
SetPeer ==
    /\ pc = "ready"
    /\ Len(log) <= MaxCalls
    /\ \E key \in PeerKeys, errno \in {0, -19} :
          With(build_message(nl, WG_CMD_SET_DEVICE), LAMBDA bm :
              With(sendto(set_dev_cmd(bm.builder, IfIndex, <<KernelPeer(key)>>)), LAMBDA request :
              With(send(bm.nl, sock \o SetReply(request, errno)), LAMBDA buffer :
              With(drain_loop(recv_msgs(buffer)), LAMBDA l :
             /\ Called(request, l)
             /\ nl' = bm.nl
             /\ dev' = [LastCall("set_peers", request, buffer, l)
                           EXCEPT !.peers = IF errno = 0 THEN WithKey(@, key) ELSE @]
             /\ pc' = Returned(l)))))

\* WireguardDev::remove_peer
RemovePeer ==
    /\ pc = "ready"
    /\ Len(log) <= MaxCalls
    /\ \E key \in PeerKeys, errno \in {0, -19} :
          With(build_message(nl, WG_CMD_SET_DEVICE), LAMBDA bm :
              With(sendto(remove_dev_cmd(bm.builder, IfIndex, key)), LAMBDA request :
              With(send(bm.nl, sock \o SetReply(request, errno)), LAMBDA buffer :
              With(drain_loop(recv_msgs(buffer)), LAMBDA l :
             /\ Called(request, l)
             /\ nl' = bm.nl
             /\ dev' = [LastCall("remove_peer", request, buffer, l)
                           EXCEPT !.peers = IF errno = 0 THEN WithoutKey(@, key) ELSE @]
             /\ pc' = Returned(l)))))

\* WireguardDev::subscribe: the SET_DEVICE request with MONITOR, then
\* NetlinkGeneric::subscribe on a socket of its own
Subscribe ==
    /\ pc = "ready"
    /\ Len(log) <= MaxCalls
    /\ \E errno \in {0, -22} :
          With(build_message(nl, WG_CMD_SET_DEVICE), LAMBDA bm :
              With(sendto(set_monitor_cmd(bm.builder, IfIndex)), LAMBDA request :
              With(send(bm.nl, sock \o SetReply(request, errno)), LAMBDA buffer :
              With(unwrap_loop(recv_msgs(buffer)), LAMBDA l :
              With( IF l.res.kind = "Ok"
                    THEN [l EXCEPT !.res = subscribe(bm.nl, WG_MULTICAST_GROUP_PEERS)]
                    ELSE l, LAMBDA l1 :
             /\ Called(request, l1)
             /\ nl' = bm.nl
             /\ dev' = LastCall("subscribe", request, buffer, l1)
             /\ pc' = Returned(l1))))))

Next == New \/ GetPeers \/ SetPeer \/ RemovePeer \/ Subscribe

Spec == Init /\ [][Next]_vars

-----------------------------------------------------------------------------
(* Claims on Spec *)

\* C3: a get_peers() that began on an empty socket and returned Ok returns
\* all the peers of the interface, in reply order: the peers of the PEERS
\* sub-tree of every part of the dump, the empty list when there is none.
C3_GetPeersAll ==
    (dev.op = "get_peers" /\ dev.clean /\ outPeer.kind = "Ok") =>
        outPeer.val = dev.peers

\* C4: when a call on the session returns, every datagram of its reply has
\* been consumed (nothing is left on the socket), the messages its receive
\* loop parsed all answer its own request, and it returns Ok only after it
\* has parsed a message of its own reply.
C4_RequestResponsePairing ==
    (dev.op # "" /\ pc \in {"ready", "failed"}) =>
        /\ sock = <<>>
        /\ \A i \in 1..Len(dev.seen) : dev.seen[i] = dev.req
        /\ outPeer.kind = "Ok" => dev.seen # <<>>

\* C8: the messages built on a session carry the sequence numbers 1, 2, 3,
\* ... in the order they are built (the GETFAMILY request of the constructor
\* takes 1, the n-th later message n + 1), strictly increasing and never
\* repeated, and the family id the session has when the message is built as
\* nlmsg_type: GENL_ID_CTRL for the first, the resolved family afterwards.
C8_SequenceNumbers ==
    /\ \A i \in 1..Len(log) :
          /\ log[i].seq = i
          /\ log[i].type = IF i = 1 THEN GENL_ID_CTRL ELSE nl.family
    /\ \A i \in 1..Len(log) : \A j \in 1..Len(log) : i < j => log[i].seq < log[j].seq
    /\ pc # "start" => nl.seq = Len(log) + 1

\* C8 witness: the constructor and two later calls have built their
\* messages on a session whose family id takes two bytes
C8_Witness ==
    /\ pc = "ready"
    /\ Len(log) = 3
    /\ nl.family = WgFamily + 256
    /\ nlmsghdr_of(sent).nlmsg_seq = 3

\* C9: NetlinkGeneric::new returns Ok iff the GETFAMILY reply carries
\* CTRL_ATTR_FAMILY_ID; then the session's family is that id, every later
\* message has it as nlmsg_type, every later receive buffer is of that
\* family, and mcast_groups maps the name of each named group to its id.
\* Without the attribute new fails with Invalid, and on a kernel error
\* reply it fails with that error.
C9_FamilyResolution ==
    pc # "start" =>
        /\ dev.new_res.kind = "Ok" <=> (dev.variant.errno = 0 /\ dev.variant.has_fid)
        /\ dev.new_res.kind = "Ok" =>
              /\ nl.family = dev.variant.fid
              /\ nl.mcast_groups = GroupTable(dev.variant.groups)
              /\ \A i \in 2..Len(log) : log[i].type = dev.variant.fid
              /\ dev.op # "new" => dev.buf = Generic(dev.variant.fid)
        /\ (dev.variant.errno = 0 /\ ~dev.variant.has_fid) =>
              dev.new_res = Res("Err", <<>>, "Invalid")
        /\ dev.variant.errno < 0 => dev.new_res = Res("Err", <<>>, "OsError")

\* C9 witness: a session resolved from a reply with three multicast groups
\* has gone on to a get_peers call
C9_Witness ==
    /\ dev.new_res.kind = "Ok"
    /\ Len(dev.variant.groups) = 3
    /\ DOMAIN nl.mcast_groups = {<<112, 101, 101, 114, 115>>, <<121>>}
    /\ nl.family = WgFamily + 256
    /\ dev.op = "get_peers"
    /\ dev.buf = Generic(WgFamily + 256)

-----------------------------------------------------------------------------
(* rt.rs and wireguard.rs: the interfaces of the system and                *)
(* WireguardDev::new.  An IfLink is [name, index, iftype, type_name]       *)
(* (type_name an Option); names are the bytes of the CString.              *)

ARPHRD_NONE == 65534

\* The RTM_GETLINK dump request of get_interfaces
get_link_cmd == ifinfomsg(dump(MsgBuilder_new(RTM_GETLINK, 1)), AF_UNSPEC)

\* The loop over attr.make_nested().attributes() of IFLA_LINKINFO
RECURSIVE linkinfo_loop(_, _, _)
linkinfo_loop(b, views, type_name) ==
    IF views = <<>> THEN type_name
    ELSE IF ~Head(views).nested /\ Head(views).type = IFLA_INFO_KIND
    THEN linkinfo_loop(b, Tail(views), cstring_from_attr(get_bytes(b, Head(views))))
    ELSE linkinfo_loop(b, Tail(views), type_name)

\* The loop over msg.attributes() of LinkEvIterator::next: acc is
\* [ifname, type_name, panic]
RECURSIVE link_attr_loop(_, _, _)
link_attr_loop(b, views, acc) ==
    IF views = <<>> \/ acc.panic THEN acc
    ELSE With(Head(views), LAMBDA a :
       IF ~a.nested /\ a.type = IFLA_IFNAME
       THEN link_attr_loop(b, Tail(views),
                           [acc EXCEPT !.ifname = cstring_from_attr(get_bytes(b, a))])
       ELSE IF ~a.nested /\ a.type = IFLA_LINKINFO
       THEN With(Attribute_attributes(b, make_nested(a)), LAMBDA sub :
               link_attr_loop(b, Tail(views),
                              [acc EXCEPT !.type_name = linkinfo_loop(b, sub.views, @),
                                          !.panic = sub.panic]))
       ELSE link_attr_loop(b, Tail(views), acc))

NoLink == [name |-> <<>>, index |-> 0, iftype |-> 0, type_name |-> None]

LinkItem(kind, err, msgtype, link) ==
    [kind |-> kind, err |-> err, msgtype |-> msgtype, link |-> link]

\* LinkEvIterator::next: [st, item]; item.kind is "None", "Err", "Some",
\* "Panic" or "Blocked"
LinkEvIterator_next(st) ==
    With(PartIterator_next(st), LAMBDA r :
       CASE r.item.kind = "None" -> [st |-> r.st, item |-> LinkItem("None", "", 0, NoLink)]
         [] r.item.kind = "Err" -> [st |-> r.st, item |-> LinkItem("Err", r.item.err, 0, NoLink)]
         [] r.item.kind \in {"Panic", "Blocked"} ->
              [st |-> r.st, item |-> LinkItem(r.item.kind, r.item.err, 0, NoLink)]
         [] OTHER ->
              IF r.item.sub.kind # "RouteIfinfo"
              THEN [st |-> r.st, item |-> LinkItem("None", "", 0, NoLink)]
              ELSE With(AttrViews(r.st.inner, r.item.attributes_start,
                                  r.item.attributes_end), LAMBDA it :
                   With(link_attr_loop(r.st.inner, it.views,
                                       [ifname |-> None, type_name |-> None,
                                        panic |-> it.panic]), LAMBDA acc :
                      IF acc.panic
                      THEN [st |-> r.st, item |-> LinkItem("Panic", "attribute", 0, NoLink)]
                      ELSE IF acc.ifname = None
                      THEN [st |-> r.st, item |-> LinkItem("None", "", 0, NoLink)]
                      ELSE [st |-> r.st,
                            item |-> LinkItem("Some", "", r.item.header.nlmsg_type,
                                              [name |-> acc.ifname[1],
                                               index |-> r.item.sub.ifi_index,
                                               iftype |-> r.item.sub.ifi_type,
                                               type_name |-> acc.type_name])])))

\* The loop of get_interfaces with result.insert(0, link_info)
RECURSIVE iter_links_loop_newest_first(_, _)
iter_links_loop_newest_first(st, result) ==
    With(LinkEvIterator_next(st), LAMBDA r :
       CASE r.item.kind = "None" -> [st |-> r.st, res |-> Res("Ok", result, "")]
         [] r.item.kind = "Err" -> [st |-> r.st, res |-> Res("Err", <<>>, r.item.err)]
         [] r.item.kind \in {"Panic", "Blocked"} ->
              [st |-> r.st, res |-> Res(r.item.kind, <<>>, r.item.err)]
         [] OTHER -> iter_links_loop_newest_first(r.st, IF r.item.msgtype = RTM_NEWLINK
                                                        THEN <<r.item.link>> \o result
                                                        ELSE result))

\* The loop of get_interfaces over buffer.iter_links(): [st, res]
RECURSIVE iter_links_loop(_, _)
iter_links_loop(st, result) ==
    With(LinkEvIterator_next(st), LAMBDA r :
       CASE r.item.kind = "None" -> [st |-> r.st, res |-> Res("Ok", result, "")]
         [] r.item.kind = "Err" -> [st |-> r.st, res |-> Res("Err", <<>>, r.item.err)]
         [] r.item.kind \in {"Panic", "Blocked"} ->
              [st |-> r.st, res |-> Res(r.item.kind, <<>>, r.item.err)]
         [] OTHER -> iter_links_loop(r.st, IF r.item.msgtype = RTM_NEWLINK
                                           THEN Append(result, r.item.link)
                                           ELSE result))

\* get_interfaces once the request is sent and the reply is on queue
get_interfaces(queue) == iter_links_loop(recv_msgs(MsgBuffer_new(Route, queue)), <<>>)

\* CString::into_string: Some iff the bytes are UTF-8
RECURSIVE is_utf8(_)
is_utf8(b) ==
    IF b = <<>> THEN TRUE
    ELSE IF b[1] < 128 THEN is_utf8(Tail(b))
    ELSE IF b[1] \in 194..223
    THEN Len(b) >= 2 /\ b[2] \in 128..191 /\ is_utf8(SubSeq(b, 3, Len(b)))
    ELSE IF b[1] \in 224..239
    THEN /\ Len(b) >= 3
         /\ b[2] \in (IF b[1] = 224 THEN 160..191
                      ELSE IF b[1] = 237 THEN 128..159 ELSE 128..191)
         /\ b[3] \in 128..191
         /\ is_utf8(SubSeq(b, 4, Len(b)))
    ELSE IF b[1] \in 240..244
    THEN /\ Len(b) >= 4
         /\ b[2] \in (IF b[1] = 240 THEN 144..191
                      ELSE IF b[1] = 244 THEN 128..143 ELSE 128..191)
         /\ b[3] \in 128..191
         /\ b[4] \in 128..191
         /\ is_utf8(SubSeq(b, 5, Len(b)))
    ELSE FALSE

\* The closure chain of get_wireguard_interfaces on the Vec<IfLink>:
\* links of type "wireguard" whose name converts, as (name, index)
RECURSIVE wireguard_filter(_)
wireguard_filter(v) ==
    IF v = <<>> THEN <<>>
    ELSE IF Head(v).type_name # None
            /\ Head(v).type_name[1] \o <<0>> = WG_GENL_NAME
            /\ is_utf8(Head(v).name)
    THEN <<[name |-> Head(v).name, index |-> Head(v).index]>> \o wireguard_filter(Tail(v))
    ELSE wireguard_filter(Tail(v))

get_wireguard_interfaces(queue) ==
    With(get_interfaces(queue), LAMBDA r :
       IF r.res.kind = "Ok" THEN [r EXCEPT !.res.val = wireguard_filter(@)] ELSE r)

\* interfaces.find(|(name, _)| name == ifname)
RECURSIVE find_name(_, _)
find_name(interfaces, ifname) ==
    IF interfaces = <<>> THEN None
    ELSE IF Head(interfaces).name = ifname THEN Some(Head(interfaces))
    ELSE find_name(Tail(interfaces), ifname)

\* The selection of WireguardDev::new among the interfaces found
select_interface(interfaces, ifname_filter) ==
    IF ifname_filter # None
    THEN With(find_name(interfaces, ifname_filter[1]), LAMBDA found :
            IF found = None THEN Res("Err", <<>>, "NoInterfaceFound")
            ELSE Res("Ok", found, ""))
    ELSE IF interfaces = <<>> THEN Res("Err", <<>>, "NoInterfaceFound")
    ELSE IF Len(Tail(interfaces)) > 0 THEN Res("Err", <<>>, "Other")
    ELSE Res("Ok", <<Head(interfaces)>>, "")

-----------------------------------------------------------------------------
(* SpecDev: WireguardDev::new on a system with some links.  dev holds the  *)
(* kernel's links (links: name, index and kind, the kind <<>> for a link   *)
(* without IFLA_LINKINFO), the ifname_filter argument (filter) and what    *)
(* the call returned (res).                                                *)

MaxLinks == 2

\* "wg0", "wg1" and a name that is not UTF-8 (dev_valid_name refuses only
\* '/', ':' and white space)
LinkNames == {<<119, 103, 48>>, <<119, 103, 49>>, <<119, 255>>}

\* "wireguard", "dummy", and no kind
LinkKinds == {SubSeq(WG_GENL_NAME, 1, Len(WG_GENL_NAME) - 1),
              <<100, 117, 109, 109, 121>>, <<>>}

\* The link tables: up to MaxLinks links with distinct names, link i having
\* index IfIndex + i
LinkTables ==
    {t \in UNION {[1..n -> [name : LinkNames, kind : LinkKinds]] : n \in 0..MaxLinks} :
        \A i \in 1..Len(t) : \A j \in 1..Len(t) : i # j => t[i].name # t[j].name}

Filters == {None, Some(<<119, 103, 48>>), Some(<<119, 103, 49>>)}

\* One RTM_NEWLINK message of the dump: ifinfomsg, IFLA_IFNAME, and
\* IFLA_LINKINFO { IFLA_INFO_KIND } for a link that has a kind
KernelLink(seq, name, index, kind) ==
    With(write_obj(MsgBuilder_new(RTM_NEWLINK, seq),
                   ifinfomsg_bytes(AF_UNSPEC, ARPHRD_NONE, index, 0)), LAMBDA b0 :
    With(attr_bytes(b0, IFLA_IFNAME, name \o <<0>>), LAMBDA b1 :
    With(IF kind # <<>>
         THEN nest_end_noflag(attr_bytes(attr_list_start(b1, IFLA_LINKINFO),
                                         IFLA_INFO_KIND, kind \o <<0>>))
         ELSE b1, LAMBDA b2 :
       KernelMsg(b2, RTM_NEWLINK, NLM_F_MULTI, seq))))

\* The messages of the link dump answering request
LinkDump(request, links) ==
    [i \in 1..Len(links) |->
        KernelLink(nlmsghdr_of(request).nlmsg_seq, links[i].name, IfIndex + i, links[i].kind)]
        \o <<KernelDone(nlmsghdr_of(request).nlmsg_seq)>>

\* The controller's reply for the wireguard family of a kernel that has
\* WireGuard links
WgFamilyVariant ==
    [errno |-> 0, has_fid |-> TRUE, fid |-> WgFamily,
     groups |-> <<Group(WG_MULTICAST_GROUP_PEERS, 9, TRUE)>>]

DevInit ==
    /\ pc = "start"
    /\ dev \in [links : LinkTables, filter : Filters, res : {Res("", <<>>, "")}]
    /\ nl = NoSession
    /\ sock = <<>>
    /\ inner = <<>>
    /\ size = 0
    /\ pos = 0
    /\ gen = 0
    /\ sent = <<>>
    /\ log = <<>>
    /\ outPeer = Res("", <<>>, "")
    /\ items = <<>>
    /\ held = <<>>
    /\ refs = 0
    /\ inPeer = NoPeer

\* NetlinkGeneric::new(SockFlag::empty(), WG_GENL_NAME).unwrap()
wgnl_new(v) ==
    With(build_message(NetlinkGeneric_new, CTRL_CMD_GETFAMILY), LAMBDA bm :
    With(sendto(get_family_cmd(bm.builder, WG_GENL_NAME)), LAMBDA request :
       set_family_info(bm.nl, FamilyReply(request, v))))

\* WireguardDev::new(ifname_filter): the link dump on a route socket, the
\* selection, and on success the generic session of the device
DevNew ==
    /\ pc = "start"
    /\ \E cuts \in SUBSET (1..Len(dev.links)) :
          With(sendto(get_link_cmd), LAMBDA request :
          With(get_wireguard_interfaces(Datagrams(LinkDump(request, dev.links), cuts, 1)),
               LAMBDA found :
          With(IF found.res.kind = "Ok"
               THEN select_interface(found.res.val, dev.filter)
               ELSE found.res, LAMBDA selected :
          With(wgnl_new(WgFamilyVariant), LAMBDA session :
             /\ sent' = request
             /\ dev' = [dev EXCEPT !.res = IF selected.kind = "Ok" /\ session.res.kind # "Ok"
                                           THEN Res("Panic", <<>>, "unwrap")
                                           ELSE selected]
             /\ nl' = IF selected.kind = "Ok" THEN session.nl ELSE nl
             /\ SetSt(IF selected.kind = "Ok" THEN session.st ELSE found.st)))))
    /\ pc' = "done"
    /\ UNCHANGED <<inPeer, items, held, refs, outPeer, log>>

DevNext == DevNew

SpecDev == DevInit /\ [][DevNext]_vars

\* The WireGuard links of the system, as (name, index), in dump order
RECURSIVE WgLinks(_, _)
WgLinks(links, i) ==
    IF i > Len(links) THEN <<>>
    ELSE IF links[i].kind \o <<0>> = WG_GENL_NAME
    THEN <<[name |-> links[i].name, index |-> IfIndex + i]>> \o WgLinks(links, i + 1)
    ELSE WgLinks(links, i + 1)

\* C10: without a filter WireguardDev::new succeeds iff exactly one
\* WireGuard interface exists (none: NoInterfaceFound, several: Other); with
\* a filter it succeeds iff a WireGuard interface has that name (otherwise
\* NoInterfaceFound); the device has the name and index of that interface.
C10_Selection ==
    pc = "done" =>
        IF dev.filter = None
        THEN /\ Len(WgLinks(dev.links, 1)) = 0 => dev.res = Res("Err", <<>>, "NoInterfaceFound")
             /\ Len(WgLinks(dev.links, 1)) = 1 => dev.res = Res("Ok", WgLinks(dev.links, 1), "")
             /\ Len(WgLinks(dev.links, 1)) > 1 => dev.res = Res("Err", <<>>, "Other")
        ELSE IF \E i \in 1..Len(WgLinks(dev.links, 1)) :
                   WgLinks(dev.links, 1)[i].name = dev.filter[1]
        THEN /\ dev.res.kind = "Ok"
             /\ dev.res.val[1].name = dev.filter[1]
             /\ dev.res.val[1] \in {WgLinks(dev.links, 1)[i] : i \in 1..Len(WgLinks(dev.links, 1))}
        ELSE dev.res = Res("Err", <<>>, "NoInterfaceFound")

-----------------------------------------------------------------------------
(* SpecSub: NetlinkGeneric::subscribe on a session whose group table came  *)
(* from a GETFAMILY reply.  dev.fds lists what every open socket is bound  *)
(* to (the nl_groups mask, as the four bytes of the u32), the session's    *)
(* own socket first; log lists the calls of subscribe: the group_name, the *)
(* result, and the socket the returned buffer owns (0 when none).          *)

MaxSubs == 2

\* "peers\0", "y\0", "nosuch\0", and "peers" and "nosuch" without the NUL
SubNames ==
    {WG_MULTICAST_GROUP_PEERS, <<121, 0>>, <<110, 111, 115, 117, 99, 104, 0>>,
     <<112, 101, 101, 114, 115>>, <<110, 111, 115, 117, 99, 104>>}

SubIds == {0, 1, 4, 32, 33}

\* The group lists of the GETFAMILY reply: no group, "peers", "peers" and "y"
SubGroupLists ==
    {<<>>} \cup {<<Group(WG_MULTICAST_GROUP_PEERS, i, TRUE)>> : i \in SubIds}
           \cup {<<Group(WG_MULTICAST_GROUP_PEERS, ij[1], TRUE), Group(<<121, 0>>, ij[2], TRUE)>> :
                   ij \in SubIds \X SubIds}

\* `1u32 << n`: the builds with overflow checks panic on n >= 32, the others
\* shift by n % 32; the mask as the bytes of the u32
shl_u32(n, build) ==
    IF n < 0 \/ (n >= 32 /\ build = "debug") THEN None
    ELSE Some([i \in 1..4 |-> IF (n % 32) \div 8 = i - 1 THEN 2 ^ (n % 8) ELSE 0])

\* NetlinkGeneric::subscribe: [res, bound], bound the mask the new socket is
\* bound to when a buffer is returned
NetlinkGeneric_subscribe(s, group_name, build) ==
    With(subscribe(s, group_name), LAMBDA found :
       IF found.kind # "Ok" THEN [res |-> found, bound |-> None]
       ELSE With(shl_u32(s.mcast_groups[cstring_from_attr(group_name)[1]] - 1, build),
                 LAMBDA group_id :
               IF group_id = None
               THEN [res |-> Res("Panic", <<>>, "shift left with overflow"), bound |-> None]
               ELSE [res |-> Res("Ok", <<Generic(s.family)>>, ""), bound |-> group_id]))

SubInit ==
    /\ pc = "start"
    /\ nl = NoSession
    /\ dev = [fds |-> <<>>]
    /\ sock = <<>>
    /\ inner = <<>>
    /\ size = 0
    /\ pos = 0
    /\ gen = 0
    /\ sent = <<>>
    /\ log = <<>>
    /\ outPeer = Res("", <<>>, "")
    /\ items = <<>>
    /\ held = <<>>
    /\ refs = 0
    /\ inPeer = NoPeer

\* NetlinkGeneric::new: the socket is bound to no group, the table is read
\* from the reply
SubNew ==
    /\ pc = "start"
    /\ \E groups \in SubGroupLists :
          With(build_message(NetlinkGeneric_new, CTRL_CMD_GETFAMILY), LAMBDA bm :
          With(sendto(get_family_cmd(bm.builder, WG_GENL_NAME)), LAMBDA request :
          With(set_family_info(bm.nl, FamilyReply(request,
                   [errno |-> 0, has_fid |-> TRUE, fid |-> WgFamily, groups |-> groups])),
               LAMBDA r :
             /\ sent' = request
             /\ nl' = r.nl
             /\ SetSt(r.st)
             /\ outPeer' = r.res
             /\ dev' = [fds |-> <<Zeros(4)>>]
             /\ pc' = IF r.res.kind = "Ok" THEN "ready" ELSE "stuck")))
    /\ UNCHANGED <<inPeer, items, held, refs, log>>

\* NetlinkGeneric::subscribe(flags, group_name)
SubSubscribe ==
    /\ pc = "ready"
    /\ Len(log) < MaxSubs
    /\ \E group_name \in SubNames, build \in {"debug", "release"} :
          With(NetlinkGeneric_subscribe(nl, group_name, build), LAMBDA r :
             /\ outPeer' = r.res
             /\ dev' = [dev EXCEPT !.fds = IF r.res.kind = "Ok" THEN Append(@, r.bound[1]) ELSE @]
             /\ log' = Append(log, [name |-> group_name, res |-> r.res, before |-> nl,
                                    fd |-> IF r.res.kind = "Ok" THEN Len(dev.fds) + 1 ELSE 0])
             /\ pc' = IF r.res.kind = "Panic" THEN "stuck" ELSE "ready")
    /\ UNCHANGED <<inPeer, sent, nl, items, held, refs>>
    /\ UNCHANGED bufVars

SubNext == SubNew \/ SubSubscribe

SpecSub == SubInit /\ [][SubNext]_vars

\* The group name a group_name argument stands for: the bytes before its
\* closing NUL, or all of it when it has none
NameOf(group_name) ==
    IF group_name # <<>> /\ group_name[Len(group_name)] = 0
    THEN SubSeq(group_name, 1, Len(group_name) - 1)
    ELSE group_name

\* What a call of subscribe must be like when the name in name is unknown
\* or has id 0
SubscribeRefused(call) ==
    /\ NameOf(call.name) \notin DOMAIN call.before.mcast_groups
          => call.res = Res("Err", <<>>, "WrongGroupName")
    /\ (NameOf(call.name) \in DOMAIN call.before.mcast_groups
            /\ call.before.mcast_groups[NameOf(call.name)] = 0)
          => call.res = Res("Err", <<>>, "InvalidGroupId")
    /\ call.res.kind = "Err" => call.fd = 0

GroupsOf(mask) ==
    {g \in 1..32 : (mask[((g - 1) \div 8) + 1] \div (2 ^ ((g - 1) % 8))) % 2 = 1}

\* C12: for every group of the table with id g >= 1, subscribe returns a
\* buffer of the session's family that owns a fresh socket bound to the
\* mask 1 << (g - 1), that is to group g and no other; the session's own
\* socket stays bound to no group.
C12_SubscriptionMask ==
    /\ \A i \in 1..Len(dev.fds) : i = 1 => dev.fds[i] = Zeros(4)
    /\ \A i \in 1..Len(log) :
          (/\ cstring_from_attr(log[i].name) # None
           /\ NameOf(log[i].name) \in DOMAIN nl.mcast_groups
           /\ nl.mcast_groups[NameOf(log[i].name)] >= 1)
          => /\ log[i].res = Res("Ok", <<Generic(nl.family)>>, "")
             /\ log[i].fd = i + 1 - Cardinality({j \in 1..(i - 1) : log[j].fd = 0})
             /\ GroupsOf(dev.fds[log[i].fd]) = {nl.mcast_groups[NameOf(log[i].name)]}

-----------------------------------------------------------------------------
(* SpecRefill: the message-part iterator on datagrams that make it refill, *)
(* on an interrupted dump and on acks.  log is the scenario:               *)
(*   kind "short": the datagrams of shorts (their lengths, each below the  *)
(*        size of a header) are queued, then a dump of one part iff follow *)
(*        is "next";                                                       *)
(*   kind "intr": a dump of k parts whose part number intr carries         *)
(*        NLM_F_DUMP_INTR, one datagram per message iff follow is "next";  *)
(*   kind "ack": an ack of a request, with the request's header (echo) or  *)
(*        without it, alone ("none") or followed by a dump of one part in  *)
(*        the same datagram ("same") or in the next one ("next").          *)
(* checks says whether the build has overflow checks.  The caller calls    *)
(* next() up to MaxNexts times, whatever it returns, until a call panics   *)
(* or blocks; items lists what the calls returned, gen of an item being    *)
(* the number of recvfrom calls made so far, one that blocks included.     *)

MaxNexts == 4

NLM_F_CAPPED == 256

ShortLens == {0, 8}

Scenario(kind, shorts, k, intr, echo, follow, checks) ==
    [kind |-> kind, shorts |-> shorts, k |-> k, intr |-> intr, echo |-> echo,
     follow |-> follow, checks |-> checks]

RefillScenarios ==
    {Scenario("short", sh, 0, 0, FALSE, f, c) :
        sh \in UNION {[1..n -> ShortLens] : n \in 1..2}, f \in {"none", "next"}, c \in BOOLEAN}
    \cup {Scenario("intr", <<>>, ki[1], ki[2], FALSE, f, c) :
        ki \in {x \in (1..2) \X (1..2) : x[2] <= x[1]}, f \in {"same", "next"}, c \in BOOLEAN}
    \cup {Scenario("ack", <<>>, 0, 0, e, f, c) :
        e \in BOOLEAN, f \in {"none", "same", "next"}, c \in BOOLEAN}

\* A message with its nlmsg_flags replaced
WithFlags(msg, flags) == SubSeq(msg, 1, 6) \o u16_to_le_bytes(flags) \o SubSeq(msg, 9, Len(msg))

\* The ack of request: NLMSG_ERROR with errno 0, then the request's header,
\* or nothing with NLM_F_CAPPED set
KernelAck(request, echo) ==
    IF echo THEN KernelError(0, request, FALSE)
    ELSE nlmsghdr_bytes([nlmsg_len |-> SIZEOF_nlmsghdr + 4, nlmsg_type |-> NLMSG_ERROR,
                         nlmsg_flags |-> NLM_F_CAPPED,
                         nlmsg_seq |-> nlmsghdr_of(request).nlmsg_seq, nlmsg_pid |-> 0])
            \o i32_to_le_bytes(0)

\* The messages of an interrupted dump
IntrMsgs(k, intr) ==
    [i \in 1..(k + 1) |->
        IF i = intr THEN WithFlags(DumpPart(i), BitOr(NLM_F_MULTI, NLM_F_DUMP_INTR))
        ELSE DumpMsgs(k)[i]]

RefillQueue(sc) ==
    CASE sc.kind = "short" ->
            [i \in 1..Len(sc.shorts) |-> Zeros(sc.shorts[i])]
                \o (IF sc.follow = "next" THEN Datagrams(DumpMsgs(1), {}, 1) ELSE <<>>)
      [] sc.kind = "intr" ->
            Datagrams(IntrMsgs(sc.k, sc.intr),
                      IF sc.follow = "next" THEN 1..sc.k ELSE {}, 1)
      [] OTHER ->
            With(KernelAck(ScenarioRequest([k |-> 2]), sc.echo), LAMBDA ack :
               CASE sc.follow = "none" -> <<ack>>
                 [] sc.follow = "same" -> <<ack \o Head(Datagrams(DumpMsgs(1), {}, 1))>>
                 [] OTHER -> <<ack>> \o Datagrams(DumpMsgs(1), {}, 1))

RefillInit ==
    /\ pc = "iter"
    /\ log \in RefillScenarios
    /\ sock = RefillQueue(log)
    /\ inner = <<>>
    /\ size = 0
    /\ pos = 0
    /\ gen = 0
    /\ items = <<>>
    /\ held = <<>>
    /\ refs = 0
    /\ inPeer = NoPeer
    /\ sent = <<>>
    /\ outPeer = Res("", <<>>, "")
    /\ nl = [NoSession EXCEPT !.family = WgFamily]
    /\ dev = NoDev

\* One call of next() on the iterator
RefillNext ==
    /\ pc = "iter"
    /\ Len(items) < MaxNexts
    /\ With(PartIterator_next([St EXCEPT !.checks = log.checks]), LAMBDA r :
          /\ SetSt(r.st)
          /\ items' = Append(items,
                 [r.item EXCEPT !.gen = r.st.gen + IF r.item.kind = "Blocked" THEN 1 ELSE 0])
          /\ pc' = IF r.item.kind \in {"Panic", "Blocked"} THEN "stuck" ELSE "iter")
    /\ UNCHANGED <<inPeer, sent, held, refs, outPeer, nl, log, dev>>

SpecRefill == RefillInit /\ [][RefillNext]_vars

\* The number of recvfrom calls the i-th call of next() made
RecvsOf(i) == items[i].gen - (IF i = 1 THEN 0 ELSE items[i - 1].gen)

\* C13: a call of next() that finds no room for a header receives once and
\* restarts at offset 0; when the datagram it received is itself too short
\* for a header the call yields Truncated instead of receiving again, so no
\* call of next() receives more than once.
C13_TruncatedRefill ==
    log.kind = "short" =>
        /\ \A i \in 1..Len(items) : RecvsOf(i) <= 1
        /\ Len(items) >= 1 =>
              /\ items[1].kind = "Err"
              /\ items[1].err = "Truncated"
              /\ RecvsOf(1) = 1

\* C14: a message whose header carries NLM_F_DUMP_INTR is not yielded as an
\* ordinary part: the call that reads it yields the Interrupted error.
C14_DumpInterrupted ==
    log.kind = "intr" =>
        \A i \in 1..Len(items) :
            BitAnd(items[i].header.nlmsg_flags, NLM_F_DUMP_INTR) = NLM_F_DUMP_INTR
                => items[i].kind = "Err" /\ items[i].err = "Interrupted"

\* C15: an ack, with or without the echoed request header, yields no item
\* and leaves the cursor at the end of the ack message, within the buffer;
\* a message that follows it in the buffer is then parsed from its own
\* header, and one in the next datagram after a refill.
C15_AckTolerance ==
    log.kind = "ack" =>
        /\ pos <= size
        /\ Len(items) >= 1 =>
              /\ items[1].kind = "None"
              /\ items[1].header.nlmsg_type = NLMSG_ERROR
              /\ Len(items) = 1 => pos = items[1].header.nlmsg_len
        /\ (Len(items) >= 2 /\ log.follow # "none") =>
              /\ items[2].kind = "Part"
              /\ items[2].bytes = DumpPart(1)
              /\ items[2].at = IF log.follow = "same" THEN items[1].header.nlmsg_len ELSE 0

-----------------------------------------------------------------------------
(* SpecBuild: a message builder receiving up to MaxOps operations          *)
(* (attr_bytes, attr_list_start, attr_list_end), then the bytes it built   *)
(* read back through the attribute iterator.  sent is the builder, log the *)
(* operations applied to it ([op, type, payload, at], at being the cursor  *)
(* before the operation), inner/size the buffer holding the built bytes,   *)
(* pos the iterator's cursor and items the attributes it yielded.          *)

MaxOps == 4

\* A payload of n bytes
Payload(n, seed) == [i \in 1..n |-> (seed * i) % 256]

AttrInputs ==
    {<<0, Payload(0, 0)>>, <<16383, Payload(3, 255)>>, <<1, Payload(4, 0)>>,
     <<3, Payload(1000, 3)>>, <<4, Payload(1024, 1)>>}

NestTypes == {WGDEVICE_A_PEERS}

Op(op, type, payload, at) == [op |-> op, type |-> type, payload |-> payload, at |-> at]

BuildInit ==
    /\ pc = "build"
    /\ sent = MsgBuilder_new(WgFamily, 1)
    /\ log = <<>>
    /\ sock = <<>>
    /\ inner = <<>>
    /\ size = 0
    /\ pos = 0
    /\ gen = 0
    /\ items = <<>>
    /\ held = <<>>
    /\ refs = 0
    /\ inPeer = NoPeer
    /\ outPeer = Res("", <<>>, "")
    /\ nl = NoSession
    /\ dev = NoDev

\* attr_bytes on the builder or on its innermost open nest; a payload that
\* does not fit the array panics (pc "panic")
BuildAttr ==
    /\ pc = "build"
    /\ Len(log) < MaxOps
    /\ \E a \in AttrInputs :
          With(attr_bytes(sent, a[1], a[2]), LAMBDA b :
             /\ sent' = b
             /\ log' = Append(log, Op("attr", a[1], a[2], sent.pos))
             /\ pc' = IF b.ok THEN "build" ELSE "panic")
    /\ UNCHANGED <<inPeer, sock, inner, size, pos, gen, items, held, refs, outPeer, nl, dev>>

BuildNestStart ==
    /\ pc = "build"
    /\ Len(log) < MaxOps
    /\ \E t \in NestTypes :
          /\ sent' = attr_list_start(sent, t)
          /\ log' = Append(log, Op("start", t, <<>>, sent.pos))
    /\ UNCHANGED <<pc, inPeer, sock, inner, size, pos, gen, items, held, refs, outPeer, nl, dev>>

BuildNestEnd ==
    /\ pc = "build"
    /\ Len(log) < MaxOps
    /\ sent.nests # <<>>
    /\ sent' = attr_list_end(sent)
    /\ log' = Append(log, Op("end", 0, <<>>, sent.pos))
    /\ UNCHANGED <<pc, inPeer, sock, inner, size, pos, gen, items, held, refs, outPeer, nl, dev>>

\* The finished message (every nest closed, which the types require before
\* sendto) lands in a receive buffer and an iterator is made on its
\* attributes; sendto consumes the builder
BuildSend ==
    /\ pc = "build"
    /\ sent.nests = <<>>
    /\ inner' = sendto(sent)
    /\ size' = sent.pos
    /\ pos' = nl_size_of_aligned(SIZEOF_nlmsghdr)
    /\ pc' = "iter"
    /\ sent' = <<>>
    /\ UNCHANGED <<inPeer, sock, gen, items, held, refs, outPeer, nl, log, dev>>

\* AttributeIterator::next on the built bytes
BuildIterNext ==
    /\ pc = "iter"
    /\ With(AttributeIterator_next(inner, pos, size), LAMBDA r :
          CASE r.kind = "Some" ->
                 /\ items' = Append(items,
                        [type |-> r.attr[1].type, nested |-> r.attr[1].nested,
                         payload |-> get_bytes(inner, r.attr[1]), at |-> pos])
                 /\ pos' = r.pos
                 /\ pc' = "iter"
            [] r.kind = "None" -> /\ pc' = "done"
                                  /\ UNCHANGED <<items, pos>>
            [] OTHER -> /\ pc' = "stuck"
                        /\ UNCHANGED <<items, pos>>)
    /\ UNCHANGED <<inPeer, sent, sock, inner, size, gen, held, refs, outPeer, nl, log, dev>>

BuildNext == BuildAttr \/ BuildNestStart \/ BuildNestEnd \/ BuildSend \/ BuildIterNext

SpecBuild == BuildInit /\ [][BuildNext]_vars

\* Only attr_bytes was applied
PlainLog == \A i \in 1..Len(log) : log[i].op = "attr"

\* nla_len of the attribute header at offset o of the built bytes
NlaLenAt(o) == nlattr_of(Slice(inner, o, o + SIZEOF_nlattr)).nla_len

\* C16: attributes appended with attr_bytes (types below 2^14, fitting the
\* builder) come back from the attribute iterator as the same (type,
\* payload) list in the same order; the first starts where the builder
\* started, each next one at the previous offset plus the aligned nla_len,
\* and nla_len is 4 plus the unpadded payload length.
C16_AttrRoundTrip ==
    (pc \in {"iter", "done", "stuck"} /\ PlainLog) =>
        /\ pc # "stuck"
        /\ Len(items) <= Len(log)
        /\ pc = "done" => Len(items) = Len(log)
        /\ \A i \in 1..Len(items) :
              /\ items[i].type = log[i].type
              /\ items[i].payload = log[i].payload
              /\ ~items[i].nested
              /\ NlaLenAt(items[i].at) = SIZEOF_nlattr + Len(log[i].payload)
              /\ items[i].at = IF i = 1 THEN nl_size_of_aligned(SIZEOF_nlmsghdr)
                               ELSE items[i - 1].at + nl_align_length(NlaLenAt(items[i - 1].at))

\* Attributes with an empty, an unaligned and an aligned payload went
\* through the builder and the iterator
C16_Witness ==
    /\ pc = "done"
    /\ PlainLog
    /\ Len(items) = 3
    /\ Len(log[1].payload) = 3
    /\ Len(log[2].payload) = 0
    /\ Len(log[3].payload) = 1024
    /\ items[3].payload = Payload(1024, 1)

\* The "start" operations of the first n operations that no "end" has
\* closed, outermost first
RECURSIVE OpenNests(_)
OpenNests(n) ==
    IF n = 0 THEN <<>>
    ELSE CASE log[n].op = "start" -> Append(OpenNests(n - 1), log[n])
           [] log[n].op = "end" -> SubSeq(OpenNests(n - 1), 1, Len(OpenNests(n - 1)) - 1)
           [] OTHER -> OpenNests(n - 1)

\* The state is the one attr_list_end left: the last operation is "end"
NestClosed == pc = "build" /\ log # <<>> /\ log[Len(log)].op = "end"

\* The nest the last operation closed
ClosedNest == With(OpenNests(Len(log) - 1), LAMBDA open : open[Len(open)])

\* C17: attr_list_end of a nest opened with attr_list_start(t) at cursor s
\* writes at s a header with type t | NESTED and nla_len = cursor - s,
\* changes no other byte and leaves the cursor; an empty nest has length 4.
C17_NestClosure ==
    [][(pc = "build" /\ log' # log /\ log'[Len(log')].op = "end") =>
          With(OpenNests(Len(log))[Len(OpenNests(Len(log)))], LAMBDA n :
             /\ sent'.pos = sent.pos
             /\ Len(sent'.inner) = Len(sent.inner)
             /\ Slice(sent'.inner, n.at, n.at + SIZEOF_nlattr)
                   = nlattr_bytes(sent.pos - n.at, BitOr(n.type, NLA_F_NESTED))
             /\ \A i \in 1..Len(sent.inner) :
                   (i <= n.at \/ i > n.at + SIZEOF_nlattr) => sent'.inner[i] = sent.inner[i]
             /\ (log[Len(log)].op = "start" /\ Len(OpenNests(Len(log))) = Len(OpenNests(Len(log) - 1)) + 1)
                   => nlattr_of(Slice(sent'.inner, n.at, n.at + SIZEOF_nlattr)).nla_len = SIZEOF_nlattr)]_vars

\* A nest holding an empty nest and one holding an attribute have been
\* closed
C17_Witness ==
    /\ NestClosed
    /\ Len(log) = 4
    /\ log[1].op = "start"
    /\ log[2].op = "start"
    /\ log[3].op = "end"
    /\ sent.nests = <<>>
    /\ nlattr_of(Slice(sent.inner, log[1].at, log[1].at + SIZEOF_nlattr)).nla_len = 2 * SIZEOF_nlattr
    /\ nlattr_of(Slice(sent.inner, log[2].at, log[2].at + SIZEOF_nlattr)).nla_len = SIZEOF_nlattr

-----------------------------------------------------------------------------
(* SpecLinks: NetlinkRoute::get_interfaces on a system with some links.    *)
(* dev holds the kernel's links, the places where the kernel starts a new  *)
(* datagram of the dump (cuts, as for Datagrams) and what the call         *)
(* returned (res).                                                         *)

LinksInit ==
    /\ pc = "start"
    /\ dev \in {d \in [links : LinkTables, cuts : SUBSET (1..MaxLinks),
                       filter : {None}, res : {Res("", <<>>, "")}] :
                   d.cuts \subseteq 1..Len(d.links)}
    /\ nl = NoSession
    /\ sock = <<>>
    /\ inner = <<>>
    /\ size = 0
    /\ pos = 0
    /\ gen = 0
    /\ sent = <<>>
    /\ log = <<>>
    /\ outPeer = Res("", <<>>, "")
    /\ items = <<>>
    /\ held = <<>>
    /\ refs = 0
    /\ inPeer = NoPeer

\* NetlinkRoute::get_interfaces: the dump request, then the loop over the
\* kernel's reply
LinksGet ==
    /\ pc = "start"
    /\ With(sendto(get_link_cmd), LAMBDA request :
       With(get_interfaces(Datagrams(LinkDump(request, dev.links), dev.cuts, 1)), LAMBDA r :
          /\ sent' = request
          /\ dev' = [dev EXCEPT !.res = r.res]
          /\ SetSt(r.st)))
    /\ pc' = "done"
    /\ UNCHANGED <<inPeer, items, held, refs, outPeer, nl, log>>

SpecLinks == LinksInit /\ [][LinksGet]_vars

\* The entry get_interfaces owes to the i-th link of the system
LinkEntry(i) ==
    [name |-> dev.links[i].name, index |-> IfIndex + i, iftype |-> ARPHRD_NONE,
     type_name |-> IF dev.links[i].kind = <<>> THEN None ELSE Some(dev.links[i].kind)]

\* C18: get_interfaces returns one (index, if_type, name, link_type_name)
\* entry per RTM_NEWLINK message of the dump, in the order received, the
\* type name being that of LINKINFO's kind attribute and absent for a link
\* without one; no message is dropped.
C18_GetInterfaces ==
    pc = "done" =>
        /\ dev.res.kind = "Ok"
        /\ Len(dev.res.val) = Len(dev.links)
        /\ \A i \in 1..Len(dev.links) : dev.res.val[i] = LinkEntry(i)

\* A dump of two links over two datagrams, one link without a kind, has
\* been collected
C18_Witness ==
    /\ pc = "done"
    /\ Len(dev.links) = 2
    /\ dev.cuts = {1}
    /\ dev.links[1].kind = <<>>
    /\ dev.links[2].kind # <<>>
    /\ gen >= 2
    /\ Len(dev.res.val) = 2

-----------------------------------------------------------------------------
(* SpecParse: Peer::new on a peer sub-tree whose attributes may be         *)
(* malformed.  log is the shape of the sub-tree, [ep, ka, ip]:             *)
(*   ep  the ENDPOINT attribute: "none", "v4", "v6" (well formed), "len12" *)
(*       (12 bytes), "v4fam10" (16 bytes, family AF_INET6), "v6fam2"       *)
(*       (28 bytes, family AF_INET);                                       *)
(*   ka  the keepalive attribute: "none", "u16", "short" (1 byte),         *)
(*       "empty" (0 bytes);                                                *)
(*   ip  the entry of the ALLOWEDIPS nest: "none", "v4" (well formed),     *)
(*       "fam7" (unknown family), "v4len16" (AF_INET with 16 address       *)
(*       bytes), "famshort" (family of 1 byte), "maskempty" (mask of 0     *)
(*       bytes).                                                           *)
(* The sub-tree always starts with the public key; inner holds it from     *)
(* offset 16 to size, and outPeer is what Peer::new returned.              *)

EpShapes == {"none", "v4", "v6", "len12", "v4fam10", "v6fam2"}
KaShapes == {"none", "u16", "short", "empty"}
IpShapes == {"none", "v4", "fam7", "v4len16", "famshort", "maskempty"}

ParseKey == [i \in 1..KeyLen |-> 160 + i]

\* The ENDPOINT payload of a shape
EpBytes(ep) ==
    CASE ep = "v4" -> sockaddr_in_bytes(IpV4b, 51820)
      [] ep = "v6" -> sockaddr_in6_bytes(IpV6a, 51820)
      [] ep = "len12" -> SubSeq(sockaddr_in_bytes(IpV4b, 51820), 1, 12)
      [] ep = "v4fam10" -> u16_to_le_bytes(AF_INET6) \o SubSeq(sockaddr_in_bytes(IpV4b, 51820), 3, 16)
      [] OTHER -> u16_to_le_bytes(AF_INET) \o SubSeq(sockaddr_in6_bytes(IpV6a, 51820), 3, 28)

\* The entry of the ALLOWEDIPS nest of a shape: family, address, mask
IpEntry(b, ip) ==
    With(CASE ip = "fam7" -> u16_to_le_bytes(7)
           [] ip = "famshort" -> <<AF_INET>>
           [] OTHER -> u16_to_le_bytes(AF_INET), LAMBDA family :
    With(IF ip = "v4len16" THEN IpV6a.octets ELSE IpV4a.octets, LAMBDA addr :
    With(IF ip = "maskempty" THEN <<>> ELSE u8_to_le_bytes(24), LAMBDA mask :
       attr_list_end(
         attr_bytes(
           attr_bytes(
             attr_bytes(attr_list_start(b, 0), WGALLOWEDIP_A_FAMILY, family),
             WGALLOWEDIP_A_IPADDR, addr),
           WGALLOWEDIP_A_CIDR_MASK, mask)))))

\* The peer sub-tree of a shape, as the kernel's writer lays attributes out
PeerTree(sh) ==
    With(attr_bytes(MsgBuilder_new(WgFamily, 1), WGPEER_A_PUBLIC_KEY, ParseKey), LAMBDA b0 :
    With(IF sh.ep = "none" THEN b0
         ELSE attr_bytes(b0, WGPEER_A_ENDPOINT, EpBytes(sh.ep)), LAMBDA b1 :
    With(CASE sh.ka = "none" -> b1
           [] sh.ka = "u16" -> attr_bytes(b1, WGPEER_A_PERSISTENT_KEEPALIVE_INTERVAL,
                                          u16_to_le_bytes(25))
           [] sh.ka = "short" -> attr_bytes(b1, WGPEER_A_PERSISTENT_KEEPALIVE_INTERVAL,
                                            <<25>>)
           [] OTHER -> attr_bytes(b1, WGPEER_A_PERSISTENT_KEEPALIVE_INTERVAL, <<>>), LAMBDA b2 :
       IF sh.ip = "none" THEN b2
       ELSE attr_list_end(IpEntry(attr_list_start(b2, WGPEER_A_ALLOWEDIPS), sh.ip)))))

ParseInit ==
    /\ pc = "start"
    /\ log \in [ep : EpShapes, ka : KaShapes, ip : IpShapes]
    /\ inner = PeerTree(log).inner
    /\ size = PeerTree(log).pos
    /\ pos = nl_size_of_aligned(SIZEOF_nlmsghdr)
    /\ sock = <<>>
    /\ gen = 0
    /\ sent = <<>>
    /\ items = <<>>
    /\ held = <<>>
    /\ refs = 0
    /\ inPeer = NoPeer
    /\ outPeer = Res("", <<>>, "")
    /\ nl = NoSession
    /\ dev = NoDev

\* Peer::new on the attributes of the sub-tree
ParsePeer ==
    /\ pc = "start"
    /\ With(Peer_new(inner, pos, size), LAMBDA r :
          outPeer' = Res(r.kind, r.val, ""))
    /\ pc' = "done"
    /\ UNCHANGED <<inPeer, sent, sock, inner, size, pos, gen, items, held, refs, nl, log, dev>>

SpecParse == ParseInit /\ [][ParsePeer]_vars

\* The peer the claim has Peer::new return for a shape: the malformed
\* values absent, the others read
ExpectedPeer(sh) ==
    [peer_key |-> ParseKey,
     endpoint |-> CASE sh.ep = "v4" -> Some([ip |-> IpV4b, port |-> 51820])
                    [] sh.ep = "v6" -> Some([ip |-> IpV6a, port |-> 51820])
                    [] OTHER -> None,
     allowed_ips |-> IF sh.ip = "v4" THEN <<[ip |-> IpV4a, mask |-> 24]>> ELSE <<>>,
     keepalive |-> IF sh.ka = "u16" THEN Some(25) ELSE None]

\* C19: a malformed ENDPOINT (length neither 16 nor 28, or family not
\* matching the length), allowed-ip (unknown family, address length not
\* matching the family) or fixed-width attribute shorter than its width
\* (keepalive, family, mask) leaves that value absent while the rest of the
\* peer is parsed; Peer::new does not panic.
C19_ParseNeverAborts ==
    pc = "done" =>
        /\ outPeer.kind # "Panic"
        /\ outPeer.val = Some(ExpectedPeer(log))

-----------------------------------------------------------------------------
(* The layout of the SET_DEVICE message of SpecPeer, read off its bytes *)

\* The attributes of a region as [type, nested, bytes], in order
Layout(b, p, end) ==
    With(AttrViews(b, p, end).views, LAMBDA views :
       [i \in 1..Len(views) |->
           [type |-> views[i].type, nested |-> views[i].nested,
            bytes |-> IF views[i].nested THEN <<>> ELSE get_bytes(b, views[i])]])

\* The attributes inside the i-th attribute of a region
Inside(b, p, end, i) ==
    With(AttrViews(b, p, end).views[i], LAMBDA v : Layout(b, v.payload_start, v.payload_end))

Raw(type, bytes) == [type |-> type, nested |-> FALSE, bytes |-> bytes]
Nest(type) == [type |-> type, nested |-> TRUE, bytes |-> <<>>]

\* The children the claim gives the nest of peer
PeerLayout(peer, endpointBytes) ==
    <<Raw(WGPEER_A_PUBLIC_KEY, peer.peer_key), Nest(WGPEER_A_ALLOWEDIPS)>>
        \o (IF peer.endpoint # None THEN <<Raw(WGPEER_A_ENDPOINT, endpointBytes)>> ELSE <<>>)
        \o (IF peer.keepalive # None
            THEN <<Raw(WGPEER_A_PERSISTENT_KEEPALIVE_INTERVAL, u16_to_le_bytes(peer.keepalive[1]))>>
            ELSE <<>>)

IpLayout(aip) ==
    <<Raw(WGALLOWEDIP_A_FAMILY, u16_to_le_bytes(IF aip.ip.v = 4 THEN AF_INET ELSE AF_INET6)),
      Raw(WGALLOWEDIP_A_IPADDR, aip.ip.octets),
      Raw(WGALLOWEDIP_A_CIDR_MASK, <<aip.mask>>)>>

\* The offset of the first attribute of a generic netlink message
AttrsStart == nl_size_of_aligned(SIZEOF_nlmsghdr) + nl_size_of_aligned(SIZEOF_genlmsghdr)

\* C20: the SET_DEVICE message holds IFINDEX, then the PEERS nest with
\* exactly one peer nest, whose children are in this order PUBLIC_KEY (the
\* key bytes), the ALLOWEDIPS nest with one inner nest per allowed ip in
\* list order (FAMILY, IPADDR, CIDR_MASK each), ENDPOINT iff the endpoint is
\* present, PERSISTENT_KEEPALIVE_INTERVAL iff the keepalive is present.
C20_PeerLayout ==
    log = <<"set_peer">> =>
        /\ ~AttrViews(sent, AttrsStart, Len(sent)).panic
        /\ genlmsghdr_of(Slice(sent, SIZEOF_nlmsghdr, AttrsStart)).cmd = WG_CMD_SET_DEVICE
        /\ Layout(sent, AttrsStart, Len(sent))
              = <<Raw(WGDEVICE_A_IFINDEX, u32_to_le_bytes(IfIndex)), Nest(WGDEVICE_A_PEERS)>>
        /\ Inside(sent, AttrsStart, Len(sent), 2) = <<Nest(0)>>
        /\ With(AttrViews(sent, AttrsStart, Len(sent)).views[2], LAMBDA peers :
              /\ Len(Inside(sent, peers.payload_start, peers.payload_end, 1))
                    = 2 + (IF inPeer.endpoint # None THEN 1 ELSE 0)
                        + (IF inPeer.keepalive # None THEN 1 ELSE 0)
              /\ With(AttrViews(sent, peers.payload_start, peers.payload_end).views[1], LAMBDA peer :
                    /\ Layout(sent, peer.payload_start, peer.payload_end)
                          = PeerLayout(inPeer,
                               IF inPeer.endpoint = None THEN <<>>
                               ELSE Layout(sent, peer.payload_start, peer.payload_end)[3].bytes)
                    /\ inPeer.endpoint # None =>
                          Len(Layout(sent, peer.payload_start, peer.payload_end)[3].bytes)
                             = IF inPeer.endpoint[1].ip.v = 4 THEN SIZEOF_sockaddr_in
                               ELSE SIZEOF_sockaddr_in6
                    /\ Inside(sent, peer.payload_start, peer.payload_end, 2)
                          = [j \in 1..Len(inPeer.allowed_ips) |-> Nest(0)]
                    /\ With(AttrViews(sent, peer.payload_start, peer.payload_end).views[2], LAMBDA ips :
                          \A j \in 1..Len(inPeer.allowed_ips) :
                             Inside(sent, ips.payload_start, ips.payload_end, j)
                                = IpLayout(inPeer.allowed_ips[j]))))

\* A peer with two allowed ips, an endpoint and a keepalive has been
\* serialized
C20_Witness ==
    /\ log = <<"set_peer">>
    /\ pc = "sent"
    /\ Len(inPeer.allowed_ips) = 2
    /\ inPeer.allowed_ips[1] # inPeer.allowed_ips[2]
    /\ inPeer.endpoint # None
    /\ inPeer.keepalive # None
    /\ inPeer.peer_key # <<>>
    /\ Len(Layout(sent, AttrsStart, Len(sent))) = 2

-----------------------------------------------------------------------------
(* SpecEndpoint: one endpoint through attr_endpoint and parse_endpoint.    *)
(* inPeer.endpoint is the endpoint, sent the message holding the ENDPOINT  *)
(* attribute alone, outPeer what parse_endpoint made of its payload.       *)

EndpointPorts == {0, 1, 255, 256, 51820, 53476, 65280, 65535}
EndpointIps == {IpV4a, IpV4b, V4(<<1, 2, 3, 4>>), V4(<<255, 0, 0, 1>>),
                IpV6a, V6([i \in 1..16 |-> i])}

EndpointInit ==
    /\ pc = "start"
    /\ inPeer \in {[NoPeer EXCEPT !.endpoint = Some([ip |-> i, port |-> p])] :
                      i \in EndpointIps, p \in EndpointPorts}
    /\ sent = <<>>
    /\ sock = <<>>
    /\ inner = <<>>
    /\ size = 0
    /\ pos = 0
    /\ gen = 0
    /\ items = <<>>
    /\ held = <<>>
    /\ refs = 0
    /\ outPeer = Res("", <<>>, "")
    /\ nl = NoSession
    /\ log = <<>>
    /\ dev = NoDev

\* attr_endpoint on a fresh builder
EndpointWrite ==
    /\ pc = "start"
    /\ sent' = sendto(attr_endpoint(MsgBuilder_new(WgFamily, 1), WGPEER_A_ENDPOINT,
                                    inPeer.endpoint[1]))
    /\ pc' = "sent"
    /\ UNCHANGED <<inPeer, sock, inner, size, pos, gen, items, held, refs, outPeer, nl, log, dev>>

\* parse_endpoint on the payload of the attribute
EndpointParse ==
    /\ pc = "sent"
    /\ With(AttrViews(sent, nl_size_of_aligned(SIZEOF_nlmsghdr), Len(sent)).views[1], LAMBDA a :
       With(parse_endpoint(get_bytes(sent, a)), LAMBDA r :
          outPeer' = Res(r.kind, r.val, "")))
    /\ pc' = "done"
    /\ UNCHANGED <<inPeer, sent, sock, inner, size, pos, gen, items, held, refs, nl, log, dev>>

EndpointNext == EndpointWrite \/ EndpointParse

SpecEndpoint == EndpointInit /\ [][EndpointNext]_vars

\* The payload of the ENDPOINT attribute written
EndpointPayload ==
    Slice(sent, nl_size_of_aligned(SIZEOF_nlmsghdr) + SIZEOF_nlattr, Len(sent))

\* C21: the ENDPOINT attribute of an IPv4 endpoint (a, p) is a 16-byte
\* sockaddr_in with p high byte first at the port offset and the octets of
\* a in order at the address offset, that of an IPv6 endpoint a 28-byte
\* sockaddr_in6 likewise; parse_endpoint of the payload returns (a, p).
C21_EndpointEndianness ==
    /\ pc \in {"sent", "done"} =>
          /\ Len(EndpointPayload) = IF inPeer.endpoint[1].ip.v = 4 THEN SIZEOF_sockaddr_in
                                    ELSE SIZEOF_sockaddr_in6
          /\ SubSeq(EndpointPayload, 3, 4)
                = <<inPeer.endpoint[1].port \div 256, inPeer.endpoint[1].port % 256>>
          /\ inPeer.endpoint[1].ip.v = 4 =>
                SubSeq(EndpointPayload, 5, 8) = inPeer.endpoint[1].ip.octets
          /\ inPeer.endpoint[1].ip.v = 6 =>
                SubSeq(EndpointPayload, 9, 24) = inPeer.endpoint[1].ip.octets
    /\ pc = "done" => outPeer = Res("Ok", inPeer.endpoint, "")

\* Port 53476 went out as d0 e4 in an IPv4 endpoint and came back
C21_Witness ==
    /\ pc = "done"
    /\ inPeer.endpoint[1].port = 53476
    /\ inPeer.endpoint[1].ip = V4(<<1, 2, 3, 4>>)
    /\ SubSeq(EndpointPayload, 3, 4) = <<208, 228>>
    /\ outPeer.val = inPeer.endpoint

-----------------------------------------------------------------------------
(* SpecRetry: the message-part iterator on a non-blocking socket.  log is  *)
(* a dump scenario whose datagrams are first in flight (sent) and reach    *)
(* the socket's queue one at a time (Deliver); the caller calls next() up  *)
(* to MaxNexts times, whatever it returns.  items lists what the calls     *)
(* returned.                                                               *)

RetryInit ==
    /\ pc = "iter"
    /\ log \in DumpScenarios
    /\ sent = ScenarioQueue(log)
    /\ sock = <<>>
    /\ inner = <<>>
    /\ size = 0
    /\ pos = 0
    /\ gen = 0
    /\ items = <<>>
    /\ held = <<>>
    /\ refs = 0
    /\ inPeer = NoPeer
    /\ outPeer = Res("", <<>>, "")
    /\ nl = [NoSession EXCEPT !.family = WgFamily]
    /\ dev = NoDev

\* The kernel's next datagram reaches the queue of the socket
Deliver ==
    /\ sent # <<>>
    /\ sock' = Append(sock, Head(sent))
    /\ sent' = Tail(sent)
    /\ UNCHANGED <<pc, inPeer, inner, size, pos, gen, items, held, refs, outPeer, nl, log, dev>>

\* One call of next() on the iterator
RetryNext ==
    /\ pc = "iter"
    /\ Len(items) < MaxNexts
    /\ With(PartIterator_next([St EXCEPT !.nonblock = TRUE]), LAMBDA r :
          /\ SetSt(r.st)
          /\ items' = Append(items, r.item)
          /\ pc' = IF r.item.kind = "Panic" THEN "stuck" ELSE "iter")
    /\ UNCHANGED <<inPeer, sent, held, refs, outPeer, nl, log, dev>>

RetryStep == Deliver \/ RetryNext

SpecRetry == RetryInit /\ [][RetryStep]_vars

\* C22: a refill whose recvfrom fails makes next() yield an error item, and
\* the calls after it yield only parts of datagrams received after the
\* failure: no message part is yielded twice.
C22_RetryAfterFailure ==
    /\ \A i \in 1..Len(items) : items[i].kind # "Blocked"
    /\ \A i \in 1..Len(items) : \A j \in 1..Len(items) :
          (i < j /\ items[i].kind = "Part" /\ items[j].kind = "Part"
                 /\ \E e \in (i + 1)..(j - 1) : items[e].kind = "Err")
             => /\ items[j].bytes # items[i].bytes
                /\ items[j].gen > items[i].gen

-----------------------------------------------------------------------------
(* SpecRoute: successive get_interfaces() calls on one NetlinkRoute.       *)
(* nl.seq is the session's seq field, dev.links the kernel's links, log    *)
(* the requests sent so far and dev.res what the last call returned.       *)

RouteInit ==
    /\ pc = "ready"
    /\ dev \in [links : LinkTables, filter : {None}, res : {Res("", <<>>, "")}]
    /\ nl = [NoSession EXCEPT !.seq = 1]
    /\ sock = <<>>
    /\ inner = <<>>
    /\ size = 0
    /\ pos = 0
    /\ gen = 0
    /\ sent = <<>>
    /\ log = <<>>
    /\ outPeer = Res("", <<>>, "")
    /\ items = <<>>
    /\ held = <<>>
    /\ refs = 0
    /\ inPeer = NoPeer

\* NetlinkRoute::get_interfaces: the request, self.seq += 1, a new buffer
\* and the loop over the reply
RouteGet ==
    /\ pc = "ready"
    /\ Len(log) < MaxCalls
    /\ \E cuts \in SUBSET (1..Len(dev.links)) :
          With(sendto(get_link_cmd), LAMBDA request :
          With(get_interfaces(sock \o Datagrams(LinkDump(request, dev.links), cuts, 1)),
               LAMBDA r :
             /\ sent' = request
             /\ log' = Append(log, request)
             /\ nl' = [nl EXCEPT !.seq = @ + 1]
             /\ dev' = [dev EXCEPT !.res = r.res]
             /\ SetSt(r.st)))
    /\ UNCHANGED <<pc, inPeer, items, held, refs, outPeer>>

SpecRoute == RouteInit /\ [][RouteGet]_vars

\* C23: the RTM_GETLINK requests of successive get_interfaces() calls on
\* one session carry strictly increasing nlmsg_seq values.
C23_RouteSequence ==
    \A i \in 1..Len(log) : \A j \in 1..Len(log) :
        i < j => nlmsghdr_of(log[i]).nlmsg_seq < nlmsghdr_of(log[j]).nlmsg_seq

-----------------------------------------------------------------------------
(* SpecMalformed: the message-part iterator on a datagram holding a        *)
(* message that is over-long or structurally invalid.  log is the          *)
(* scenario [bad, lead, tail, nonblock]:                                   *)
(*   bad   "overlong" (nlmsg_len beyond the end of the datagram),          *)
(*         "shortlen" (a family message of nlmsg_len 16, no sub-header),   *)
(*         "tinylen" (nlmsg_len 8, below the header size), "misaligned"    *)
(*         (a family message of 26 bytes, padded to 28 in the buffer),     *)
(*         "unknown" (a type that is neither the family, NLMSG_ERROR nor   *)
(*         NLMSG_DONE);                                                    *)
(*   lead  the number of good parts ahead of it in the datagram (0 or 1);  *)
(*   tail  whether a good part and NLMSG_DONE follow it in the same        *)
(*         datagram ("same"), in the next one ("next") or not at all;      *)
(*   nonblock  whether the socket was opened non-blocking.                 *)
(* The caller calls next() up to MaxNexts times unless a call panics or    *)
(* blocks; items lists what the calls returned.                            *)

BadKinds == {"overlong", "shortlen", "tinylen", "misaligned", "unknown"}

\* A message with its nlmsg_len, or its nlmsg_type, replaced
WithLen(msg, n) == u32_to_le_bytes(n) \o SubSeq(msg, 5, Len(msg))
WithType(msg, t) == SubSeq(msg, 1, 4) \o u16_to_le_bytes(t) \o SubSeq(msg, 7, Len(msg))

\* A device message whose last attribute has a payload of 2 bytes: its
\* nlmsg_len counts no padding, the buffer holds the padding
UnpaddedMsg ==
    With(attr_bytes(generic(MsgBuilder_new(WgFamily, 2), WG_CMD_GET_DEVICE),
                    WGDEVICE_A_IFNAME, <<119, 0>>), LAMBDA b :
       WithLen(KernelMsg(b, WgFamily, NLM_F_MULTI, 2), b.pos - 2))

BadMsg(bad) ==
    CASE bad = "overlong" -> WithLen(DumpPart(5), Len(DumpPart(5)) + 36)
      [] bad = "shortlen" -> WithLen(SubSeq(DumpPart(5), 1, SIZEOF_nlmsghdr), SIZEOF_nlmsghdr)
      [] bad = "tinylen" -> WithLen(SubSeq(DumpPart(5), 1, SIZEOF_nlmsghdr), 8)
      [] bad = "misaligned" -> UnpaddedMsg
      [] OTHER -> WithType(DumpPart(5), WgFamily + 64)

MalformedScenarios ==
    {sc \in [bad : BadKinds, lead : 0..1, tail : {"none", "same", "next"}, nonblock : BOOLEAN] :
        sc.bad = "overlong" => sc.tail # "same"}

MalformedQueue(sc) ==
    With((IF sc.lead = 1 THEN DumpPart(1) ELSE <<>>) \o BadMsg(sc.bad), LAMBDA first :
       CASE sc.tail = "none" -> <<first>>
         [] sc.tail = "same" -> <<first \o DumpPart(3) \o KernelDone(2)>>
         [] OTHER -> <<first, DumpPart(3) \o KernelDone(2)>>)

MalformedInit ==
    /\ pc = "iter"
    /\ log \in MalformedScenarios
    /\ sock = MalformedQueue(log)
    /\ inner = <<>>
    /\ size = 0
    /\ pos = 0
    /\ gen = 0
    /\ items = <<>>
    /\ held = <<>>
    /\ refs = 0
    /\ inPeer = NoPeer
    /\ sent = <<>>
    /\ outPeer = Res("", <<>>, "")
    /\ nl = [NoSession EXCEPT !.family = WgFamily]
    /\ dev = NoDev

\* One call of next() on the iterator
MalformedNext ==
    /\ pc = "iter"
    /\ Len(items) < MaxNexts
    /\ With(PartIterator_next([St EXCEPT !.nonblock = log.nonblock]), LAMBDA r :
          /\ SetSt(r.st)
          /\ items' = Append(items, r.item)
          /\ pc' = IF r.item.kind \in {"Panic", "Blocked"} THEN "stuck" ELSE "iter")
    /\ UNCHANGED <<inPeer, sent, held, refs, outPeer, nl, log, dev>>

SpecMalformed == MalformedInit /\ [][MalformedNext]_vars

\* The call that read the bad message has returned
BadRead == Len(items) >= log.lead + 1

\* No call after the one that read the bad message yields a part of the
\* buffer contents the bad message was in
NoPartOfSameBuffer ==
    \A j \in (log.lead + 2)..Len(items) :
        items[j].kind = "Part" => items[j].gen > items[log.lead + 1].gen

\* C24: a header whose nlmsg_len exceeds the bytes left in the buffer makes
\* next() yield Truncated, and no later next() yields a part parsed from
\* the buffer contents of that moment.
C24_OverLong ==
    (log.bad = "overlong" /\ BadRead) =>
        /\ items[log.lead + 1].kind = "Err"
        /\ items[log.lead + 1].err = "Truncated"
        /\ Len(items) = log.lead + 1 => pos = size
        /\ NoPartOfSameBuffer

\* C25: a structurally invalid message (nlmsg_len below header plus
\* sub-header, misaligned nlmsg_len, type of no configured family or route
\* class) makes next() yield an Err item, and no later next() yields a part
\* parsed from the rest of the same buffer contents.
C25_StructuralFailure ==
    (log.bad \in {"shortlen", "tinylen", "misaligned", "unknown"} /\ BadRead) =>
        /\ items[log.lead + 1].kind = "Err"
        /\ NoPartOfSameBuffer

\* C28: every header the iterator reads is at a multiple of 4, and after a
\* part at offset o of length nlmsg_len the next header of the same buffer
\* contents is read at o + align(nlmsg_len).
C28_HeaderAlignment ==
    /\ \A i \in 1..Len(items) :
          items[i].kind # "Blocked" => nl_align_length(items[i].at) = items[i].at
    /\ \A i \in 1..(Len(items) - 1) :
          (items[i].kind = "Part" /\ items[i + 1].kind # "Blocked"
                /\ items[i + 1].gen = items[i].gen /\ items[i + 1].header # NoHeader)
             => items[i + 1].at = items[i].at + nl_align_length(items[i].header.nlmsg_len)
    /\ (pc = "iter" /\ items # <<>> /\ items[Len(items)].kind = "Part")
          => pos = items[Len(items)].at + nl_align_length(items[Len(items)].header.nlmsg_len)

-----------------------------------------------------------------------------
(* SpecAttrs: the attribute iterator over a span of arbitrary records.     *)
(* inner holds a 4-byte sub-header followed by the span's bytes, (pos,     *)
(* size) are the iterator's (pos, end), held is the span (start, end) the  *)
(* iterator was made on, gen is its nesting depth, and log.checks tells    *)
(* whether the build checks integer overflow.  items lists the views the   *)
(* calls of next() yielded, each with the cursor it was read at, the       *)
(* nla_len of its record and the span and depth of its iterator.           *)

\* A record: a header with this nla_len, followed by body bytes of zeros
RecordLens == {0, 2, 4, 6, 8, 12}
RecordBodies == {0, 4, 8}
Leaves == [len : RecordLens, body : RecordBodies, nest : {FALSE}]
Records == Leaves \cup [len : RecordLens, body : RecordBodies, nest : {TRUE}]

LeafBytes(r) == nlattr_bytes(r.len, WGDEVICE_A_IFNAME) \o Zeros(r.body)

\* The record, or a nested attribute whose payload is the record
RecordBytes(r) ==
    IF r.nest
    THEN nlattr_bytes(SIZEOF_nlattr + Len(LeafBytes(r)), NLA_F_NESTED + WGDEVICE_A_PEERS)
            \o LeafBytes(r)
    ELSE LeafBytes(r)

SpanInputs == {<<r>> : r \in Records} \cup {<<r1, r2>> : r1 \in Records, r2 \in Leaves}

RECURSIVE SpanBytes(_)
SpanBytes(rs) == IF rs = <<>> THEN <<>> ELSE RecordBytes(Head(rs)) \o SpanBytes(Tail(rs))

AttrsInit ==
    /\ pc = "iter"
    /\ log \in [checks : BOOLEAN, span : SpanInputs]
    /\ inner = <<WG_CMD_GET_DEVICE, 1, 0, 0>> \o SpanBytes(log.span)
    /\ pos = nl_size_of_aligned(SIZEOF_genlmsghdr)
    /\ size = Len(inner)
    /\ held = [start |-> pos, end |-> size]
    /\ gen = 0
    /\ items = <<>>
    /\ sock = <<>>
    /\ refs = 0
    /\ inPeer = NoPeer
    /\ sent = <<>>
    /\ outPeer = Res("", <<>>, "")
    /\ nl = NoSession
    /\ dev = NoDev

\* One call of next() on the iterator
AttrsNext ==
    /\ pc = "iter"
    /\ Len(items) < MaxNexts
    /\ With(AttributeIterator_step(inner, pos, size, log.checks), LAMBDA r :
          CASE r.kind = "Some" ->
                 /\ items' = Append(items,
                        [view |-> r.attr[1], at |-> pos, depth |-> gen,
                         start |-> held.start, end |-> held.end,
                         nla_len |-> nlattr_of(Slice(inner, pos, pos + SIZEOF_nlattr)).nla_len])
                 /\ pos' = r.pos
                 /\ pc' = "iter"
            [] r.kind = "None" -> /\ pc' = "done"
                                  /\ UNCHANGED <<items, pos>>
            [] OTHER -> /\ pc' = "stuck"
                        /\ UNCHANGED <<items, pos>>)
    /\ UNCHANGED <<inPeer, sent, sock, inner, size, gen, held, refs, outPeer, nl, log, dev>>

\* attributes() on the view the iterator yielded last: the caller goes on
\* with the iterator over its payload
AttrsDescend ==
    /\ pc = "iter"
    /\ items # <<>>
    /\ items[Len(items)].depth = gen
    /\ items[Len(items)].view.nested
    /\ pos' = items[Len(items)].view.payload_start
    /\ size' = items[Len(items)].view.payload_end
    /\ held' = [start |-> pos', end |-> size']
    /\ gen' = gen + 1
    /\ UNCHANGED <<pc, inPeer, sent, sock, inner, items, refs, outPeer, nl, log, dev>>

AttrsStep == AttrsNext \/ AttrsDescend

SpecAttrs == AttrsInit /\ [][AttrsStep]_vars

\* C26: every view an attribute iterator over (start, end) yields, at
\* message level or inside a nest, has its payload inside the span, and its
\* record has nla_len >= 4 and does not cross end.
C26_AttributeBounds ==
    \A i \in 1..Len(items) :
        /\ items[i].start + SIZEOF_nlattr <= items[i].view.payload_start
        /\ items[i].view.payload_start <= items[i].view.payload_end
        /\ items[i].view.payload_end <= items[i].end
        /\ items[i].nla_len >= SIZEOF_nlattr
        /\ items[i].at + items[i].nla_len <= items[i].end

\* The views an iterator of this depth yielded
ViewsAt(d) == {i \in 1..Len(items) : items[i].depth = d}

\* C30: each call of next() that yields a view advances the cursor by at
\* least 4 bytes, so an iterator over (start, end) yields at most
\* (end - start) / 4 views, at every depth.
C30_AttributeTermination ==
    /\ \A i \in 1..Len(items) :
          \A j \in (i + 1)..Len(items) :
              items[j].depth = items[i].depth => items[j].at >= items[i].at + SIZEOF_nlattr
    /\ \A i \in 1..Len(items) :
          (items[i].depth = gen /\ \A j \in (i + 1)..Len(items) : items[j].depth # gen)
             => pos >= items[i].at + SIZEOF_nlattr
    /\ \A d \in 0..gen :
          \A i \in ViewsAt(d) :
              Cardinality(ViewsAt(d)) * SIZEOF_nlattr <= items[i].end - items[i].start

-----------------------------------------------------------------------------
(* SpecUnknown: Peer::new on a well-formed peer sub-tree with and without  *)
(* one more attribute of an id the parser does not know.  log is           *)
(* [ep, ka, ip, where, type, len]: the shapes of SpecParse for the         *)
(* endpoint, the keepalive and the allowed-ip entry, where the attribute   *)
(* is added ("first" or "last" in the peer nest, "ip_first" or "ip_last"   *)
(* in the allowed-ip entry), its id and its payload length.  sent is the   *)
(* sub-tree without the attribute and held what Peer::new returns for it;  *)
(* inner is the sub-tree with the attribute and outPeer what Peer::new     *)
(* returns for that.                                                       *)

\* Ids that are neither a known peer attribute nor a known allowed-ip one
UnknownTypes == {7, 10}
UnknownLens == {0, 4, 8}
UnknownPlaces == {"first", "last", "ip_first", "ip_last"}

\* attr_bytes of the added attribute when it belongs at this place
AddAt(b, sc, place) ==
    IF sc.where = place THEN attr_bytes(b, sc.type, Zeros(sc.len)) ELSE b

\* The sub-tree of the scenario; where = "nowhere" gives the one without the
\* added attribute
UnknownTree(sc) ==
    With(attr_bytes(AddAt(MsgBuilder_new(WgFamily, 1), sc, "first"),
                    WGPEER_A_PUBLIC_KEY, ParseKey), LAMBDA b0 :
    With(IF sc.ep = "none" THEN b0
         ELSE attr_bytes(b0, WGPEER_A_ENDPOINT, EpBytes(sc.ep)), LAMBDA b1 :
    With(IF sc.ka = "none" THEN b1
         ELSE attr_bytes(b1, WGPEER_A_PERSISTENT_KEEPALIVE_INTERVAL, u16_to_le_bytes(25)), LAMBDA b2 :
    With(IF sc.ip = "none" THEN b2
         ELSE attr_list_end(attr_list_end(
                AddAt(
                  attr_bytes(
                    attr_bytes(
                      attr_bytes(
                        AddAt(attr_list_start(attr_list_start(b2, WGPEER_A_ALLOWEDIPS), 0),
                              sc, "ip_first"),
                        WGALLOWEDIP_A_FAMILY, u16_to_le_bytes(AF_INET)),
                      WGALLOWEDIP_A_IPADDR, IpV4a.octets),
                    WGALLOWEDIP_A_CIDR_MASK, u8_to_le_bytes(24)),
                  sc, "ip_last"))), LAMBDA b3 :
       AddAt(b3, sc, "last")))))

UnknownScenarios ==
    {sc \in [ep : {"none", "v4", "v6"}, ka : {"none", "u16"}, ip : {"none", "v4"},
             where : UnknownPlaces, type : UnknownTypes, len : UnknownLens] :
        sc.where \in {"ip_first", "ip_last"} => sc.ip = "v4"}

UnknownInit ==
    /\ pc = "start"
    /\ log \in UnknownScenarios
    /\ inner = UnknownTree(log).inner
    /\ size = UnknownTree(log).pos
    /\ pos = nl_size_of_aligned(SIZEOF_nlmsghdr)
    /\ sent = UnknownTree([log EXCEPT !.where = "nowhere"])
    /\ held = <<>>
    /\ sock = <<>>
    /\ gen = 0
    /\ items = <<>>
    /\ refs = 0
    /\ inPeer = NoPeer
    /\ outPeer = Res("", <<>>, "")
    /\ nl = NoSession
    /\ dev = NoDev

\* Peer::new on the sub-tree without the added attribute
UnknownParseBase ==
    /\ pc = "start"
    /\ With(Peer_new(sent.inner, pos, sent.pos), LAMBDA r :
          held' = Res(r.kind, r.val, ""))
    /\ pc' = "base"
    /\ UNCHANGED <<inPeer, sent, sock, inner, size, pos, gen, items, refs, outPeer, nl, log, dev>>

\* Peer::new on the sub-tree with it
UnknownParse ==
    /\ pc = "base"
    /\ With(Peer_new(inner, pos, size), LAMBDA r :
          outPeer' = Res(r.kind, r.val, ""))
    /\ pc' = "done"
    /\ UNCHANGED <<inPeer, sent, sock, inner, size, pos, gen, items, held, refs, nl, log, dev>>

UnknownNext == UnknownParseBase \/ UnknownParse

SpecUnknown == UnknownInit /\ [][UnknownNext]_vars

\* C27: an attribute of an unrecognised id added to the peer nest, or to
\* one of its allowed-ip nests, does not change the Peer that Peer::new
\* returns.
C27_UnknownSkipped == pc = "done" => outPeer = held

-----------------------------------------------------------------------------
(* SpecAgain: recv_msgs() called again on the same MsgBuffer.  log is the  *)
(* dump the kernel has queued on the socket; held lists, for each iterator *)
(* made by recv_msgs(), how many items had been yielded when it was made,  *)
(* and items the items yielded by next() on the newest iterator (an older  *)
(* one cannot be used once it was dropped for the new one).                *)

MaxIters == 2

AgainInit ==
    /\ pc = "iter"
    /\ log \in DumpScenarios
    /\ sock = ScenarioQueue(log)
    /\ inner = <<>>
    /\ size = 0
    /\ pos = 0
    /\ gen = 0
    /\ items = <<>>
    /\ held = <<0>>
    /\ refs = 0
    /\ inPeer = NoPeer
    /\ sent = <<>>
    /\ outPeer = Res("", <<>>, "")
    /\ nl = [NoSession EXCEPT !.family = WgFamily]
    /\ dev = NoDev

\* One call of next() on the newest iterator
AgainNext ==
    /\ pc = "iter"
    /\ Len(items) < MaxNexts
    /\ With(PartIterator_next(St), LAMBDA r :
          /\ SetSt(r.st)
          /\ items' = Append(items, r.item)
          /\ pc' = IF r.item.kind \in {"Panic", "Blocked"} THEN "stuck" ELSE "iter")
    /\ UNCHANGED <<inPeer, sent, held, refs, outPeer, nl, log, dev>>

\* buffer.recv_msgs() once more, after the loop on the previous iterator
\* was left (at None, or earlier by break)
AgainRecvMsgs ==
    /\ pc = "iter"
    /\ Len(held) < MaxIters
    /\ items # <<>>
    /\ SetSt(recv_msgs(St))
    /\ held' = Append(held, Len(items))
    /\ UNCHANGED <<pc, inPeer, sent, items, refs, outPeer, nl, log, dev>>

AgainStep == AgainNext \/ AgainRecvMsgs

SpecAgain == AgainInit /\ [][AgainStep]_vars

\* The iterator that yielded item i
IterOf(i) == Cardinality({k \in 1..Len(held) : held[k] < i})

\* C29: an iterator made by a later recv_msgs() on the same buffer does not
\* yield a message part (a message of a received datagram, at its offset)
\* that an earlier iterator already yielded.
C29_ExactlyOnce ==
    \A i \in 1..Len(items) :
        \A j \in (i + 1)..Len(items) :
            (items[i].kind = "Part" /\ items[j].kind = "Part" /\ IterOf(i) < IterOf(j))
               => ~(items[i].gen = items[j].gen /\ items[i].at = items[j].at)

====
